---- MODULE Spec2Model ----
(***************************************************************************)
(* The task / environment interaction layer of the navigation framework:  *)
(* RoboThorEnvironment (rl_robothor/robothor_environment.py), PointNavTask *)
(* and ObjectNavTask (rl_robothor/robothor_tasks.py) and the exploration   *)
(* shaping ObjectNavTask (rl_robothor/object_nav/tasks.py).                *)
(*                                                                         *)
(* Numbers are fixed point: lengths are in centimetres and rewards in      *)
(* hundredths, so 0.01 is 1, 0.2 is 20, 0.25 is 25, -0.5 is -50, -1.0 is   *)
(* -100 and -2 is -200.  Angles are in degrees.                            *)
(***************************************************************************)
EXTENDS Integers, Sequences, FiniteSets, TLC

VARIABLES
    \* ---- RoboThorEnvironment and the simulator behind it
    agent,                 \* last_event.metadata["agent"]: x, z, rot, horizon
    lastActionSuccess,     \* last_event.metadata["lastActionSuccess"]
    grids,                 \* self.grids of the scene the episode runs in
    \* ---- the task (one episode)
    kind,                  \* which task class the episode is an instance of
    distance_cache,        \* TRUE iff a (truthy) distance cache was supplied
    reward_configs,
    mirror,
    took_end_action,       \* _took_end_action
    success,               \* _success: "True", "False" or "None"
    last_action_success,   \* "True", "False" or "None"
    last_geodesic_distance,
    optimal_distance,
    episode_optimal_corners, \* corners of the shortest path at construction
    rewards,               \* _rewards
    path,
    num_moves_made,
    num_steps_taken,       \* Task._num_steps_taken
    followed_path,         \* task_info["followed_path"]
    taken_actions,         \* task_info["taken_actions"]
    cur_dist,              \* exploration task only
    visited,               \* exploration task only
    \* ---- what the latest call did and gave back
    call,                  \* the latest call and its outcome
    judged,                \* sum of every reward judge() has returned
    shaped,                \* sum of every value shaping() has returned
    metricsReads,          \* metrics() calls made on the done task, counted up to MaxReads
    simLog,                \* last action forwarded to Environment.step, distance queries of the call
    \* ---- RoboThorEnvironment as a task sampler drives it
    scene_name,            \* last_event.metadata["sceneName"]
    known_good_location,
    scene_grids,           \* self.grids of the scenes other than the current one
    pc,                    \* "idle", or "randomize" inside randomize_agent_location
    rand_k,                \* k of randomize_agent_location
    rand_state,            \* state of randomize_agent_location
    env_calls,             \* calls the sampler has made, counted up to MaxCalls
    envLog,                \* what the latest environment call asked of the simulator
    answers                \* <<scene, target, cell, distance, pose>> of every distance access_grid returned

envVars == <<agent, lastActionSuccess, grids>>
cfgVars == <<kind, distance_cache, reward_configs, mirror, optimal_distance,
             episode_optimal_corners>>
taskVars == <<took_end_action, success, last_action_success, last_geodesic_distance,
              rewards, path, num_moves_made, num_steps_taken, followed_path,
              taken_actions, cur_dist, visited>>
obsVars == <<call, judged, shaped, metricsReads, simLog>>
sceneVars == <<scene_name, known_good_location, scene_grids, pc, rand_k, rand_state,
               env_calls, envLog, answers>>
vars == <<envVars, cfgVars, taskVars, obsVars, sceneVars>>

----------------------------------------------------------------------------
(* Bounds of the model *)

\* max_steps handed to the task
MaxSteps == 3
\* how far (cm) one MOVE_AHEAD of the stochastic agent may displace it
MoveReach == 40
\* metrics() calls on a done task that are told apart
MaxReads == 2
\* calls a sampler makes on a bare environment
MaxCalls == 5
\* largest rotation (degrees) random_reachable_state draws
MaxRotation == 60

(* Program constants *)

gridSize == 25
rotateStepDegrees == 30
\* the 0.2 m success radius of PointNavTask._is_goal_in_range
GoalRange == 20
\* the -0.5 validity threshold ("robothor limits")
ValidAbove == -50
\* -1.0: known unreachable
Unreachable == -100
\* -2: cell not computed yet
Unknown == -200
\* access_grid tests "< -1.5" for a cell that is not computed yet
UnknownBelow == -150
\* Python's None where a distance is expected
PyNone == -9999
\* float("inf")
PyInf == 1000000
\* the "k < 10" of randomize_agent_location
MaxAttempts == 10

MOVE_AHEAD == "MoveAhead"
ROTATE_LEFT == "RotateLeft"
ROTATE_RIGHT == "RotateRight"
LOOK_UP == "LookUp"
LOOK_DOWN == "LookDown"
MOVE_BACK == "MoveBack"
END == "End"

PointNavActions == <<MOVE_AHEAD, ROTATE_LEFT, ROTATE_RIGHT, END>>
ObjectNavActions == <<MOVE_AHEAD, ROTATE_LEFT, ROTATE_RIGHT, END, LOOK_UP, LOOK_DOWN>>
ExploreNavActions == <<MOVE_AHEAD, MOVE_BACK, ROTATE_LEFT, ROTATE_RIGHT, LOOK_DOWN, LOOK_UP, END>>

----------------------------------------------------------------------------
(* Arithmetic helpers *)

Abs(n) == IF n < 0 THEN -n ELSE n

Max(a, b) == IF a >= b THEN a ELSE b

Min(a, b) == IF a <= b THEN a ELSE b

\* Python 3 round(n / d) for d > 0: nearest integer, ties to the even one
PyRound(n, d) ==
    LET q == n \div d
        r == n % d
    IN  IF 2 * r < d THEN q
        ELSE IF 2 * r > d THEN q + 1
        ELSE IF q % 2 = 0 THEN q ELSE q + 1

\* a quantization that leaves the rounded coordinate unclamped
Clip_None(v, lo, hi) == v

\* np.clip(v, lo, hi)
Clip(v, lo, hi) == Max(lo, Min(v, hi))

\* math.sqrt on a perfect-square-or-not integer, rounded down
Isqrt(n) == CHOOSE r \in 0..(n + 1) : r * r <= n /\ (r + 1) * (r + 1) > n

RECURSIVE SumSeq(_)
SumSeq(s) == IF s = <<>> THEN 0 ELSE s[1] + SumSeq(Tail(s))

\* a[:, ::-1]: the columns of an image in reverse order
Flip(cols) == [i \in 1..Len(cols) |-> cols[Len(cols) + 1 - i]]

----------------------------------------------------------------------------
(* The simulator (external): a corridor along x with the target at x = 0   *)

\* positions the agent can be at (continuous mode: not only grid points)
Points == {0, 10, 25, 50, 75}
\* GetReachablePositions: the grid-aligned navigable positions
ReachablePoints == {0, 25, 50}
Horizons == {-30, 0, 30, 60}
SceneName == "FloorPlan_Train1_1"
TargetType == "Television"
OtherType == "Chair"
TargetPos == 0

\* metadata["objects"] for a pose: the target is in view close to it only
all_objects(a) ==
    { [objectType |-> TargetType, visible |-> (a.x <= 10 /\ a.horizon = 0)],
      [objectType |-> OtherType,  visible |-> (a.x >= 25)] }

\* event.frame (H x W x 3) and event.depth_frame (H x W) for a pose
current_frame(a) == [ndim |-> 3, cols |-> <<a.x, a.rot + 1>>]

current_depth(a) == [ndim |-> 2, cols |-> <<a.x + 2, a.rot + 3>>]

\* get_shortest_path_to_object_type: the corners, or <<>> with ok FALSE when
\* the simulator raises ValueError (no path)
ShortestPath(a) ==
    IF a.x \in {75} THEN [ok |-> FALSE, corners |-> <<>>]
    ELSE [ok |-> TRUE, corners |-> << [x |-> a.x, z |-> a.z], [x |-> TargetPos, z |-> 0] >>]

\* outcomes of controller.step(action) from pose a: the new pose and lastActionSuccess
SimStep(a, act) ==
    CASE act \in {MOVE_AHEAD, MOVE_BACK} ->
            { [agent |-> [a EXCEPT !.x = p], ok |-> TRUE] :
                  p \in {q \in Points : q # a.x /\ Abs(q - a.x) <= MoveReach} }
            \cup { [agent |-> a, ok |-> FALSE] }
      [] act = ROTATE_LEFT ->
            { [agent |-> [a EXCEPT !.rot = (a.rot - rotateStepDegrees) % 360], ok |-> TRUE] }
      [] act = ROTATE_RIGHT ->
            { [agent |-> [a EXCEPT !.rot = (a.rot + rotateStepDegrees) % 360], ok |-> TRUE] }
      [] act = LOOK_UP ->
            IF a.horizon - 30 \in Horizons
            THEN { [agent |-> [a EXCEPT !.horizon = a.horizon - 30], ok |-> TRUE] }
            ELSE { [agent |-> a, ok |-> FALSE] }
      [] act = LOOK_DOWN ->
            IF a.horizon + 30 \in Horizons
            THEN { [agent |-> [a EXCEPT !.horizon = a.horizon + 30], ok |-> TRUE] }
            ELSE { [agent |-> a, ok |-> FALSE] }

\* a second scene, where the agent starts with no path to the target
OtherScene == "FloorPlan_Train1_2"

Scenes == {SceneName, OtherScene}

\* GetReachablePositions per scene
SceneReachable(s) == IF s = SceneName THEN ReachablePoints ELSE {25, 75}

\* the pose the agent has after controller.reset(s)
SceneStart(s) ==
    [x |-> (IF s = SceneName THEN 0 ELSE 75), z |-> 0, rot |-> 0, horizon |-> 0]

\* outcomes of controller.reset(s) from pose a in scene cur
SimReset(a, cur, s) ==
    { [agent |-> SceneStart(s), ok |-> TRUE, scene |-> s],
      [agent |-> a, ok |-> FALSE, scene |-> cur] }

\* outcomes of controller.step("TeleportFull", **pose), forced or not, in scene cur
Teleport(a, cur, pose) ==
    { [agent |-> pose, ok |-> TRUE, scene |-> cur],
      [agent |-> a, ok |-> FALSE, scene |-> cur] }

\* outcomes of the shortest-path query: the answer, and where it leaves the agent
ShortestPathQuery(a) ==
    { [ok |-> ShortestPath(a).ok, corners |-> ShortestPath(a).corners, agent |-> b] :
          b \in {a, [a EXCEPT !.x = TargetPos]} }

----------------------------------------------------------------------------
(* RoboThorEnvironment *)

\* agent_state(): the pose; the position part is what the tasks put in path
agent_state(a) == a

Position(a) == [x |-> a.x, z |-> a.z]

\* min / max of the quantized coordinates
SetMin(qs) == CHOOSE q \in qs : \A r \in qs : q <= r

SetMax(qs) == CHOOSE q \in qs : \A r \in qs : q >= r

\* initialize_grid_dimensions: bounding box of the quantized reachable points
initialize_grid_dimensions(pts) ==
    [xmin |-> SetMin({ PyRound(p, gridSize) : p \in pts }),
     xmax |-> SetMax({ PyRound(p, gridSize) : p \in pts }),
     zmin |-> 0, zmax |-> 0]

\* the empty dict of per-target arrays
NoCells == [t \in {} |-> 0]

\* initialize_grid on a scene without a grid: ({},) + dimensions
initialize_grid == [cells |-> NoCells] @@ initialize_grid_dimensions(ReachablePoints)

\* the rotation bucket: round(((rotation + rs / 2) % 360) / rs), in half degrees
RotationBucket(rot, rs) == PyRound((2 * rot + rs) % 720, 2 * rs)

\* quantized_agent_state(xz_subsampling, rot_subsampling)
quantized_agent_state(g, a, xz_subsampling, rot_subsampling) ==
    << (Clip(PyRound(a.x, gridSize), g.xmin, g.xmax) - g.xmin) \div xz_subsampling,
       (Clip(PyRound(a.z, gridSize), g.zmin, g.zmax) - g.zmin) \div xz_subsampling,
       RotationBucket(a.rot, rotateStepDegrees * rot_subsampling) >>

\* one leg of a corner path
Leg(p, q) == Isqrt((q.x - p.x) * (q.x - p.x) + (q.z - p.z) * (q.z - p.z))

RECURSIVE CornerSum(_, _)
CornerSum(corners, it) ==
    IF it > Len(corners) THEN 0
    ELSE Leg(corners[it - 1], corners[it]) + CornerSum(corners, it + 1)

\* a length that takes the empty path for a path of length 0
path_corners_to_dist_EmptyIsZero(corners) ==
    IF Len(corners) = 0 THEN 0 ELSE CornerSum(corners, 2)

\* path_corners_to_dist
path_corners_to_dist(corners) ==
    IF Len(corners) = 0 THEN PyInf ELSE CornerSum(corners, 2)

\* path_corners: the simulator's path, [] on ValueError; the agent is teleported
\* back to the pose read before the query
PathOrEmpty(sp) == IF sp.ok THEN sp.corners ELSE <<>>

path_corners(a) == PathOrEmpty(ShortestPath(a))

\* inf stored as it is
InfToUnreachable_Keep(d) == d

\* inf becomes -1.0 for unreachable
InfToUnreachable(d) == IF d = PyInf THEN Unreachable ELSE d

\* access_grid: the per-target array is created full of -2 on first use
GridWithTarget(g, target) ==
    IF target \in DOMAIN g.cells THEN g
    ELSE [g EXCEPT !.cells =
            (target :> [c \in ((0..(g.xmax - g.xmin)) \X (0..(g.zmax - g.zmin))) |-> Unknown])
            @@ g.cells]

\* access_grid: p[0], p[1] of the quantized agent state
GridCell(p) == <<p[1], p[2]>>

\* access_grid that computes and stores on every call
AccessCell_Recompute(g, c, target, dist) ==
    [dist |-> dist, grid |-> [g EXCEPT !.cells[target][c] = dist], queries |-> 1]

\* access_grid that keeps the stored cell but returns a fresh distance
AccessCell_ReturnsFresh(g, c, target, dist) ==
    IF g.cells[target][c] < UnknownBelow
    THEN [dist |-> dist, grid |-> [g EXCEPT !.cells[target][c] = dist], queries |-> 1]
    ELSE [dist |-> dist, grid |-> g, queries |-> 1]

\* access_grid: a cell below -1.5 is computed, stored and returned
AccessCell(g, c, target, dist) ==
    IF g.cells[target][c] < UnknownBelow
    THEN [dist |-> dist, grid |-> [g EXCEPT !.cells[target][c] = dist], queries |-> 1]
    ELSE [dist |-> g.cells[target][c], grid |-> g, queries |-> 0]

\* access_grid(target): [dist, grid, queries] for grid g and pose a
access_grid(g, a, target) ==
    AccessCell(GridWithTarget(g, target),
               GridCell(quantized_agent_state(g, a, 1, 1)),
               target,
               InfToUnreachable(path_corners_to_dist(path_corners(a))))

\* dist_to_object
dist_to_object(g, a, target) == access_grid(g, a, target)

\* object_reachable: access_grid(object_type) > -0.5
object_reachable(rd) == rd.dist > ValidAbove

----------------------------------------------------------------------------
(* Collaborators outside the core: distance cache, sensor suite, Task base *)

\* the precomputed table behind get_distance / get_distance_to_object:
\* a length, -1.0 for an unreachable pose, None for a pose it does not hold
CacheLookup(x) ==
    CASE x = 0 -> 0
      [] x = 10 -> 10
      [] x = 25 -> 25
      [] x = 50 -> Unreachable
      [] OTHER -> PyNone

\* utils.cache_utils.get_distance(cache, pose, target)
get_distance(a) == CacheLookup(a.x)

\* utils.cache_utils.get_distance_to_object(cache, pose, object_type)
get_distance_to_object(a) == CacheLookup(a.x)

\* Environment.dist_to_point(target): geodesic length to a coordinate, -1.0 unreachable
dist_to_point(a) == InfToUnreachable(path_corners_to_dist(path_corners(a)))

\* Environment.agent_to_grid: the earlier name of quantized_agent_state
agent_to_grid(g, a, xz_subsampling, rot_subsampling) ==
    quantized_agent_state(g, a, xz_subsampling, rot_subsampling)

\* SensorSuite.get_observations(env, task): observation name -> array
SensorNames == {"rgb_lowres", "depth_lowres", "goal_object_type_ind"}

sensor_observations(a) ==
    [o \in SensorNames |->
        CASE o = "rgb_lowres" -> current_frame(a)
          [] o = "depth_lowres" -> current_depth(a)
          [] OTHER -> [ndim |-> 1, cols |-> <<1>>]]

\* Task.is_done(): terminal state reached or step budget used up
is_done == took_end_action \/ num_steps_taken >= MaxSteps

\* Python truth value of an Optional[bool]
Truthy(b) == b = "True"

PyBool(b) == IF b THEN "True" ELSE "False"

NoRet == [none |-> TRUE]

\* the keys of the info dict of a step result: the exploration task's _step
\* builds it without "action"
InfoKeys ==
    IF kind = "ExploreNav" THEN {"last_action_success"}
    ELSE {"last_action_success", "action"}

\* the value a step hands back
StepResult(obs, j, isEnd, las, action, action_str, before) ==
    [observation |-> obs,
     reward |-> j.reward,
     shaping |-> j.shaping,
     last_before |-> before,
     done |-> (isEnd \/ num_steps_taken + 1 >= MaxSteps),
     info_keys |-> InfoKeys,
     last_action_success |-> las,
     action |-> action,
     action_str |-> action_str]

\* reached_terminal_state()
reached_terminal_state == took_end_action

\* a terminal flag also set by the last step of the budget
EndTaken_AtBudget(isEnd) == took_end_action \/ isEnd \/ num_steps_taken + 1 >= MaxSteps

\* _step: _took_end_action is set when the action is END
EndTaken(isEnd) == took_end_action \/ isEnd

\* a task that re-reads its optimal distance as it goes
ConfigKept_TracksDistance ==
    /\ optimal_distance' = last_geodesic_distance
    /\ UNCHANGED <<kind, distance_cache, reward_configs, mirror, episode_optimal_corners>>

\* what __init__ alone assigns: no step, judge, shaping, spl or metrics writes it
ConfigKept == UNCHANGED cfgVars

\* what a step finds: END touches no simulator, any other action is forwarded
Outcomes(action_str) ==
    IF action_str = END THEN {[agent |-> agent, ok |-> lastActionSuccess]}
    ELSE SimStep(agent, action_str)

----------------------------------------------------------------------------
(* PointNavTask (rl_robothor/robothor_tasks.py) *)

\* dist_to_target(): None instead of an unreachable reading
NoneIfInvalid(res) == IF res > ValidAbove THEN res ELSE PyNone

dist_to_target(a) == NoneIfInvalid(dist_to_point(a))

\* the distance reading of PointNavTask for pose a
PointReading(a) == IF distance_cache THEN get_distance(a) ELSE dist_to_target(a)

\* _is_goal_in_range on a reading: comparing None with a float raises TypeError
PointGoalInRange(dist) ==
    IF dist = PyNone THEN [err |-> "TypeError", val |-> "None"]
    ELSE IF ValidAbove < dist /\ dist <= GoalRange THEN [err |-> "none", val |-> "True"]
    ELSE IF dist > GoalRange THEN [err |-> "none", val |-> "False"]
    ELSE [err |-> "none", val |-> "None"]

PointNav_is_goal_in_range(a) == PointGoalInRange(PointReading(a))

\* shaping() that stores an unreachable reading
KeepLast_Overwrite(d, last) == d

\* shaping(): an unreachable reading is replaced by the stored distance
KeepLast(d, last) == IF d = Unreachable THEN last ELSE d

\* a shaping term without the validity test
ShapingTerm_NoValidity(last, geodesic_distance) ==
    IF last = PyNone \/ geodesic_distance = PyNone
    THEN [err |-> "TypeError", rew |-> 0, last |-> last, queries |-> 1]
    ELSE [err |-> "none",
          rew |-> (last - geodesic_distance) * reward_configs.shaping_weight,
          last |-> geodesic_distance,
          queries |-> 1]

\* a shaping term that pays for progress and never charges for retreat
ShapingTerm_GainsOnly(last, geodesic_distance) ==
    IF last = PyNone \/ (last > ValidAbove /\ geodesic_distance = PyNone)
    THEN [err |-> "TypeError", rew |-> 0, last |-> last, queries |-> 1]
    ELSE [err |-> "none",
          rew |-> (IF last > ValidAbove /\ geodesic_distance > ValidAbove
                   THEN Max(0, last - geodesic_distance) ELSE 0)
                  * reward_configs.shaping_weight,
          last |-> geodesic_distance,
          queries |-> 1]

\* shaping(): the difference of two valid distances, times the weight
ShapingTerm(last, geodesic_distance) ==
    IF last = PyNone \/ (last > ValidAbove /\ geodesic_distance = PyNone)
    THEN [err |-> "TypeError", rew |-> 0, last |-> last, queries |-> 1]
    ELSE [err |-> "none",
          rew |-> (IF last > ValidAbove /\ geodesic_distance > ValidAbove
                   THEN last - geodesic_distance ELSE 0)
                  * reward_configs.shaping_weight,
          last |-> geodesic_distance,
          queries |-> 1]

\* shaping() without the zero-weight shortcut
PointNav_shaping_AlwaysQueries(a, last) ==
    ShapingTerm(last, KeepLast(PointReading(a), last))

\* shaping(): [err, rew, last, queries]
PointNav_shaping(a, last) ==
    IF reward_configs.shaping_weight = 0
    THEN [err |-> "none", rew |-> 0, last |-> last, queries |-> 0]
    ELSE ShapingTerm(last, KeepLast(PointReading(a), last))

\* a terminal bonus that treats None like False
PointNavBonus_NoneAsFailure(took_end, succ) ==
    IF took_end
    THEN (IF Truthy(succ) THEN reward_configs.goal_success_reward
                          ELSE reward_configs.failed_stop_reward)
    ELSE 0

\* a terminal bonus that pays an undecided END like a success
PointNavBonus_NoneAsSuccess(took_end, succ) ==
    IF took_end
    THEN (IF succ # "False" THEN reward_configs.goal_success_reward
                           ELSE reward_configs.failed_stop_reward)
    ELSE 0

\* the terminal bonus judge() adds once END was taken
PointNavBonus(took_end, succ) ==
    IF took_end /\ succ # "None"
    THEN (IF Truthy(succ) THEN reward_configs.goal_success_reward
                          ELSE reward_configs.failed_stop_reward)
    ELSE 0

\* a judge() that stores the reward twice
RewardsAfter_Twice(reward) == Append(Append(rewards, reward), reward)

\* judge(): self._rewards.append(float(reward))
RewardsAfter(reward) == Append(rewards, reward)

\* judge() that forgets the step penalty
JudgeOf_NoPenalty(sh, bonus) ==
    [reward |-> sh.rew + bonus, shaping |-> sh.rew] @@ sh

\* judge(): step penalty, shaping and terminal bonus
JudgeOf(sh, bonus) ==
    [reward |-> reward_configs.step_penalty + sh.rew + bonus, shaping |-> sh.rew] @@ sh

PointNav_judge(a, last, took_end, succ) ==
    JudgeOf(PointNav_shaping(a, last), PointNavBonus(took_end, succ))

\* the move counter of _step: the last two recorded positions differ
CountMove(p, n) == IF Len(p) > 1 /\ p[Len(p)] # p[Len(p) - 1] THEN n + 1 ELSE n

\* a path that takes a position only when it differs from the last one recorded
PathAfter_OnlyIfMoved(isEnd, a) ==
    IF isEnd THEN path
    ELSE IF path # <<>> /\ path[Len(path)] = Position(a) THEN path
    ELSE Append(path, Position(a))

\* a path that takes the position after END as well
PathAfter_EndToo(isEnd, a) == Append(path, Position(a))

\* _step: the path after the action
PathAfter(isEnd, a) == IF isEnd THEN path ELSE Append(path, Position(a))

\* spl() that divides by the length of the path taken alone
CacheSpl_PathOnly(succ, li, moves) ==
    IF ~Truthy(succ) THEN [err |-> "none", num |-> 0, den |-> 1]
    ELSE IF li = PyNone THEN [err |-> "TypeError", num |-> 0, den |-> 1]
    ELSE [err |-> "none", num |-> li, den |-> moves * gridSize]

\* spl() in distance-cache mode, as the fraction num / den
CacheSpl(succ, li, moves) ==
    IF ~Truthy(succ) THEN [err |-> "none", num |-> 0, den |-> 1]
    ELSE IF li = PyNone THEN [err |-> "TypeError", num |-> 0, den |-> 1]
    ELSE IF Max(moves * gridSize, li) = 0 THEN [err |-> "ZeroDivisionError", num |-> 0, den |-> 1]
    ELSE [err |-> "none", num |-> li, den |-> Max(moves * gridSize, li)]

\* _step after END raised in _is_goal_in_range
PointNavRaiseAtEnd(goal) ==
    /\ took_end_action' = TRUE
    /\ call' = [op |-> "step", err |-> goal.err, ret |-> NoRet]
    /\ simLog' = [sent |-> "none", shaping_queries |-> 0]
    /\ UNCHANGED <<envVars, cfgVars, success, last_action_success, last_geodesic_distance,
                   rewards, path, num_moves_made, num_steps_taken, followed_path,
                   taken_actions, cur_dist, visited, judged, shaped, metricsReads>>

\* _step from the simulator's answer on: bookkeeping, judge, result
PointNavCommit(action, action_str, isEnd, out, succ, las, j) ==
    /\ agent' = out.agent
    /\ lastActionSuccess' = out.ok
    /\ took_end_action' = EndTaken(isEnd)
    /\ success' = succ
    /\ last_action_success' = las
    /\ path' = PathAfter(isEnd, out.agent)
    /\ num_moves_made' = CountMove(PathAfter(isEnd, out.agent), num_moves_made)
    /\ simLog' = [sent |-> IF isEnd THEN "none" ELSE action_str,
                  shaping_queries |-> j.queries]
    /\ ConfigKept
    /\ UNCHANGED <<grids, followed_path, taken_actions, cur_dist, visited,
                   metricsReads>>
    /\ IF j.err # "none"
       THEN /\ call' = [op |-> "step", err |-> j.err, ret |-> NoRet]
            /\ UNCHANGED <<last_geodesic_distance, rewards, num_steps_taken, judged, shaped>>
       ELSE /\ last_geodesic_distance' = j.last
            /\ rewards' = RewardsAfter(j.reward)
            /\ judged' = judged + j.reward
            /\ shaped' = shaped + j.shaping
            /\ num_steps_taken' = num_steps_taken + 1
            /\ call' = [op |-> "step", err |-> "none",
                        ret |-> StepResult(sensor_observations(out.agent), j, isEnd, las,
                                           action, action_str, last_geodesic_distance)]

PointNavAfterGoal(action, action_str, isEnd, out, goal) ==
    IF goal.err # "none" THEN PointNavRaiseAtEnd(goal)
    ELSE PointNavCommit(action, action_str, isEnd, out, goal.val,
                        IF isEnd THEN goal.val ELSE PyBool(out.ok),
                        PointNav_judge(out.agent, last_geodesic_distance, isEnd, goal.val))

\* _step(action) under Task.step, for every outcome of the simulator
PointNavStep(action) ==
    /\ UNCHANGED sceneVars
    /\ kind = "PointNav"
    /\ call.err = "none"
    /\ ~is_done
    /\ \E out \in Outcomes(PointNavActions[action]) :
          PointNavAfterGoal(action, PointNavActions[action], PointNavActions[action] = END, out,
                            IF PointNavActions[action] = END
                            THEN PointNav_is_goal_in_range(agent)
                            ELSE [err |-> "none", val |-> success])

\* metrics() on a done task, after the reward list was summed and emptied
PointNavDoneMetrics(total_reward, dist2tget, spl) ==
    IF success = "None"
    THEN [op |-> "metrics", err |-> "none", ret |-> [empty |-> TRUE]]
    ELSE IF ~distance_cache
    THEN [op |-> "metrics", err |-> "NotImplementedError", ret |-> NoRet]
    ELSE IF dist2tget = PyNone
    THEN [op |-> "metrics", err |-> "none", ret |-> [empty |-> TRUE]]
    ELSE IF spl.err # "none"
    THEN [op |-> "metrics", err |-> spl.err, ret |-> NoRet]
    ELSE [op |-> "metrics", err |-> "none",
          ret |-> [empty |-> FALSE,
                   success |-> success,
                   ep_length |-> num_steps_taken,
                   total_reward |-> total_reward,
                   dist_to_target |-> dist2tget,
                   spl |-> [num |-> spl.num, den |-> spl.den]]]

\* metrics() that empties the reward list before the task is done
PointNav_metrics_ClearsEarly ==
    IF ~is_done
    THEN [call |-> [op |-> "metrics", err |-> "none", ret |-> [empty |-> TRUE]],
          rewards |-> <<>>]
    ELSE [call |-> PointNavDoneMetrics(SumSeq(rewards), get_distance(agent),
                                       CacheSpl(success, optimal_distance, num_moves_made)),
          rewards |-> <<>>]

\* metrics(): the value handed back and the reward list it leaves
PointNav_metrics ==
    IF ~is_done
    THEN [call |-> [op |-> "metrics", err |-> "none", ret |-> [empty |-> TRUE]],
          rewards |-> rewards]
    ELSE [call |-> PointNavDoneMetrics(SumSeq(rewards), get_distance(agent),
                                       CacheSpl(success, optimal_distance, num_moves_made)),
          rewards |-> <<>>]

\* a metrics() call of the sampler
MetricsCall(m) ==
    /\ call' = m.call
    /\ rewards' = m.rewards
    /\ metricsReads' = (IF is_done THEN Min(metricsReads + 1, MaxReads) ELSE metricsReads)
    /\ simLog' = [sent |-> "none", shaping_queries |-> 0]
    /\ ConfigKept
    /\ UNCHANGED <<envVars, took_end_action, success, last_action_success,
                   last_geodesic_distance, path, num_moves_made, num_steps_taken,
                   followed_path, taken_actions, cur_dist, visited, judged, shaped>>

PointNavMetrics ==
    /\ UNCHANGED sceneVars
    /\ kind = "PointNav"
    /\ call.err = "none"
    /\ MetricsCall(PointNav_metrics)

\* render(mode) of PointNavTask: the frame as the environment holds it
PointNav_render(mode, a) ==
    [err |-> "none", frame |-> IF mode = "rgb" THEN current_frame(a) ELSE current_depth(a)]

----------------------------------------------------------------------------
(* ObjectNavTask (rl_robothor/robothor_tasks.py) *)

\* a swap that turns right into left but not left into right
MirrorAction_OneWay(m, action_str) ==
    IF m /\ action_str = ROTATE_RIGHT THEN ROTATE_LEFT ELSE action_str

\* the left/right swap _step applies to the action name when mirror is set
MirrorAction(m, action_str) ==
    IF m /\ action_str = ROTATE_RIGHT THEN ROTATE_LEFT
    ELSE IF m /\ action_str = ROTATE_LEFT THEN ROTATE_RIGHT
    ELSE action_str

\* visible_objects(): all_objects_with_properties({"visible": True})
visible_objects(a) == { o \in all_objects(a) : o.visible = TRUE }

\* a goal test that forgets visibility
ObjectNav_is_goal_in_range_AnyObject(a) ==
    \E o \in all_objects(a) : o.objectType = TargetType

\* _is_goal_in_range(): some visible object is of the target type
ObjectNav_is_goal_in_range(a) ==
    \E o \in visible_objects(a) : o.objectType = TargetType

\* the distance reading of ObjectNavTask: [dist, grid, queries]
ObjectReading(g, a) ==
    IF distance_cache
    THEN [dist |-> get_distance_to_object(a), grid |-> g, queries |-> 0]
    ELSE dist_to_object(g, a, TargetType)

\* shaping() from the reading on: no replacement of an unreachable reading
ObjectShapingOf(rd, last) ==
    [grid |-> rd.grid, pathq |-> rd.queries] @@ ShapingTerm(last, rd.dist)

\* shaping(): [err, rew, last, queries, grid, pathq]
ObjectNav_shaping(g, a, last) ==
    IF reward_configs.shaping_weight = 0
    THEN [err |-> "none", rew |-> 0, last |-> last, queries |-> 0, grid |-> g, pathq |-> 0]
    ELSE ObjectShapingOf(ObjectReading(g, a), last)

\* the terminal bonus judge() adds once END was taken
ObjectNavBonus(took_end, succ) ==
    IF took_end
    THEN (IF Truthy(succ) THEN reward_configs.goal_success_reward
                          ELSE reward_configs.failed_stop_reward)
    ELSE 0

\* judge()
ObjectNav_judge(g, a, last, took_end, succ) ==
    JudgeOf(ObjectNav_shaping(g, a, last), ObjectNavBonus(took_end, succ))

\* observation names containing "rgb" or "depth"
ImageNames == {"rgb_lowres", "depth_lowres"}

\* get_observations(): under mirror, 2- and 3-dimensional rgb/depth arrays are flipped
MirrorObservations(m, obs) ==
    [o \in DOMAIN obs |->
        IF m /\ o \in ImageNames /\ obs[o].ndim \in {2, 3}
        THEN [obs[o] EXCEPT !.cols = Flip(obs[o].cols)]
        ELSE obs[o]]

ObjectNav_get_observations(m, a) == MirrorObservations(m, sensor_observations(a))

\* render(mode): frame[:, ::-1, :] needs three dimensions
MirrorFrame(m, frame) ==
    IF ~m THEN [err |-> "none", frame |-> frame]
    ELSE IF frame.ndim # 3 THEN [err |-> "IndexError", frame |-> frame]
    ELSE [err |-> "none", frame |-> [frame EXCEPT !.cols = Flip(frame.cols)]]

ObjectNav_render(m, mode, a) ==
    MirrorFrame(m, IF mode = "rgb" THEN current_frame(a) ELSE current_depth(a))

\* a followed path that keeps positions only
FollowedPathAfter_Positions(isEnd, a) ==
    IF isEnd THEN followed_path ELSE Append(followed_path, Position(a))

\* _step: task_info["followed_path"] after the action
FollowedPathAfter(isEnd, a) ==
    IF isEnd THEN followed_path ELSE Append(followed_path, agent_state(a))

\* _step from the simulator's answer on: bookkeeping, judge, result
ObjectNavCommit(action, action_str, isEnd, out, succ, las, j) ==
    /\ agent' = out.agent
    /\ lastActionSuccess' = (IF j.pathq > 0 THEN TRUE ELSE out.ok)
    /\ grids' = j.grid
    /\ took_end_action' = EndTaken(isEnd)
    /\ success' = succ
    /\ last_action_success' = las
    /\ taken_actions' = Append(taken_actions, action_str)
    /\ path' = PathAfter(isEnd, out.agent)
    /\ followed_path' = FollowedPathAfter(isEnd, out.agent)
    /\ num_moves_made' = CountMove(PathAfter(isEnd, out.agent), num_moves_made)
    /\ simLog' = [sent |-> IF isEnd THEN "none" ELSE action_str,
                  shaping_queries |-> j.queries]
    /\ ConfigKept
    /\ UNCHANGED <<cur_dist, visited, metricsReads>>
    /\ IF j.err # "none"
       THEN /\ call' = [op |-> "step", err |-> j.err, ret |-> NoRet]
            /\ UNCHANGED <<last_geodesic_distance, rewards, num_steps_taken, judged, shaped>>
       ELSE /\ last_geodesic_distance' = j.last
            /\ rewards' = RewardsAfter(j.reward)
            /\ judged' = judged + j.reward
            /\ shaped' = shaped + j.shaping
            /\ num_steps_taken' = num_steps_taken + 1
            /\ call' = [op |-> "step", err |-> "none",
                        ret |-> StepResult(ObjectNav_get_observations(mirror, out.agent), j,
                                           isEnd, las, action, action_str,
                                           last_geodesic_distance)]

ObjectNavAfterGoal(action, action_str, isEnd, out, succ) ==
    ObjectNavCommit(action, action_str, isEnd, out, succ,
                    IF isEnd THEN succ ELSE PyBool(out.ok),
                    ObjectNav_judge(grids, out.agent, last_geodesic_distance, isEnd, succ))

ObjectNavSend(action, action_str) ==
    \E out \in Outcomes(action_str) :
        ObjectNavAfterGoal(action, action_str, action_str = END, out,
                           IF action_str = END
                           THEN PyBool(ObjectNav_is_goal_in_range(agent))
                           ELSE success)

\* _step(action) under Task.step, for every outcome of the simulator
ObjectNavStep(action) ==
    /\ UNCHANGED sceneVars
    /\ kind = "ObjectNav"
    /\ call.err = "none"
    /\ ~is_done
    /\ ObjectNavSend(action, MirrorAction(mirror, ObjectNavActions[action]))

\* metrics() that leaves the reward list as it is
ObjectNavDoneMetrics_KeepsRewards(dist2tget, spl) ==
    IF spl.err # "none"
    THEN [call |-> [op |-> "metrics", err |-> spl.err, ret |-> NoRet], rewards |-> rewards]
    ELSE [call |-> [op |-> "metrics", err |-> "none",
                    ret |-> [empty |-> FALSE,
                             success |-> success,
                             ep_length |-> num_steps_taken,
                             total_reward |-> SumSeq(rewards),
                             dist_to_target |-> dist2tget,
                             spl |-> [num |-> spl.num, den |-> spl.den]]],
          rewards |-> rewards]

\* metrics() on a done task with a distance cache
ObjectNavDoneMetrics(dist2tget, spl) ==
    IF spl.err # "none"
    THEN [call |-> [op |-> "metrics", err |-> spl.err, ret |-> NoRet], rewards |-> rewards]
    ELSE [call |-> [op |-> "metrics", err |-> "none",
                    ret |-> [empty |-> FALSE,
                             success |-> success,
                             ep_length |-> num_steps_taken,
                             total_reward |-> SumSeq(rewards),
                             dist_to_target |-> dist2tget,
                             spl |-> [num |-> spl.num, den |-> spl.den]]],
          rewards |-> <<>>]

\* metrics() that falls back to the path taken when there is no distance cache
ObjectNav_metrics_Fallback ==
    IF ~is_done
    THEN [call |-> [op |-> "metrics", err |-> "none", ret |-> [empty |-> TRUE]],
          rewards |-> rewards]
    ELSE ObjectNavDoneMetrics(IF distance_cache THEN get_distance_to_object(agent)
                              ELSE last_geodesic_distance,
                              CacheSpl(success, optimal_distance, num_moves_made))

\* metrics() without the is_done test
ObjectNav_metrics_NoDoneCheck ==
    IF ~distance_cache
    THEN [call |-> [op |-> "metrics", err |-> "NotImplementedError", ret |-> NoRet],
          rewards |-> rewards]
    ELSE ObjectNavDoneMetrics(get_distance_to_object(agent),
                              CacheSpl(success, optimal_distance, num_moves_made))

\* metrics(): the value handed back and the reward list it leaves
ObjectNav_metrics ==
    IF ~distance_cache
    THEN [call |-> [op |-> "metrics", err |-> "NotImplementedError", ret |-> NoRet],
          rewards |-> rewards]
    ELSE IF ~is_done
    THEN [call |-> [op |-> "metrics", err |-> "none", ret |-> [empty |-> TRUE]],
          rewards |-> rewards]
    ELSE ObjectNavDoneMetrics(get_distance_to_object(agent),
                              CacheSpl(success, optimal_distance, num_moves_made))

ObjectNavMetrics ==
    /\ UNCHANGED sceneVars
    /\ kind = "ObjectNav"
    /\ call.err = "none"
    /\ MetricsCall(ObjectNav_metrics)

\* the frame render(mode) gives for the task class of the episode
RenderOf(mode) ==
    IF kind = "PointNav" THEN PointNav_render(mode, agent)
    ELSE ObjectNav_render(mirror, mode, agent)

RenderCall(mode, r) ==
    [op |-> "render", err |-> r.err, ret |-> [mode |-> mode, frame |-> r.frame]]

\* render(mode) of either task class
Render(mode) ==
    /\ UNCHANGED sceneVars
    /\ kind \in {"PointNav", "ObjectNav"}
    /\ call.err = "none"
    /\ call' = RenderCall(mode, RenderOf(mode))
    /\ simLog' = [sent |-> "none", shaping_queries |-> 0]
    /\ UNCHANGED <<envVars, cfgVars, taskVars, judged, shaped, metricsReads>>

----------------------------------------------------------------------------
(* ObjectNavTask with exploration shaping (rl_robothor/object_nav/tasks.py) *)

\* shaping(): reward for getting closer
CloserTerm(cur, new_dist) ==
    IF cur > ValidAbove /\ new_dist > ValidAbove THEN cur - new_dist ELSE 0

\* a shaping() that pays the exploration bonus on every step
ExploreShapingOf_EveryStep(rd, cur, vis, cell) ==
    [rew |-> (CloserTerm(cur, rd.dist) + reward_configs.exploration_shaping_weight)
             * reward_configs.shaping_weight,
     cur_dist |-> rd.dist,
     visited |-> vis \cup {cell},
     queries |-> 1,
     grid |-> rd.grid,
     pathq |-> rd.queries]

\* shaping(): reward for a (cell, sector) not seen before, then the weight
ExploreShapingOf(rd, cur, vis, cell) ==
    [rew |-> (CloserTerm(cur, rd.dist)
              + reward_configs.exploration_shaping_weight
                * (Cardinality(vis \cup {cell}) - Cardinality(vis)))
             * reward_configs.shaping_weight,
     cur_dist |-> rd.dist,
     visited |-> vis \cup {cell},
     queries |-> 1,
     grid |-> rd.grid,
     pathq |-> rd.queries]

\* shaping(): [rew, cur_dist, visited, queries, grid, pathq]
ExploreNav_shaping(g, a, cur, vis) ==
    IF reward_configs.shaping_weight = 0
    THEN [rew |-> 0, cur_dist |-> cur, visited |-> vis, queries |-> 0, grid |-> g, pathq |-> 0]
    ELSE ExploreShapingOf(dist_to_object(g, a, TargetType), cur, vis,
                          agent_to_grid(g, a, 4, 3))

\* judge(): the reward is returned, not stored
ExploreJudgeOf(sh, las, bonus) ==
    [reward |-> reward_configs.step_penalty + sh.rew
                + (IF ~Truthy(las) THEN reward_configs.unsuccessful_action_penalty ELSE 0)
                + bonus,
     shaping |-> sh.rew] @@ sh

ExploreNav_judge(g, a, cur, vis, las, took_end, succ) ==
    ExploreJudgeOf(ExploreNav_shaping(g, a, cur, vis), las, ObjectNavBonus(took_end, succ))

ExploreNavCommit(action, action_str, isEnd, out, succ, las, j) ==
    /\ agent' = out.agent
    /\ lastActionSuccess' = (IF j.pathq > 0 THEN TRUE ELSE out.ok)
    /\ grids' = j.grid
    /\ took_end_action' = EndTaken(isEnd)
    /\ success' = succ
    /\ last_action_success' = las
    /\ cur_dist' = j.cur_dist
    /\ visited' = j.visited
    /\ judged' = judged + j.reward
    /\ shaped' = shaped + j.shaping
    /\ num_steps_taken' = num_steps_taken + 1
    /\ simLog' = [sent |-> IF isEnd THEN "none" ELSE action_str,
                  shaping_queries |-> j.queries]
    /\ call' = [op |-> "step", err |-> "none",
                ret |-> StepResult(sensor_observations(out.agent), j, isEnd, las,
                                   0, action_str, cur_dist)]
    /\ ConfigKept
    /\ UNCHANGED <<last_geodesic_distance, rewards, path,
                   num_moves_made, followed_path, taken_actions, metricsReads>>

ExploreNavAfterGoal(action, action_str, isEnd, out, succ, las) ==
    ExploreNavCommit(action, action_str, isEnd, out, succ, las,
                     ExploreNav_judge(grids, out.agent, cur_dist, visited, las, isEnd, succ))

ExploreNavSend(action, action_str, isEnd) ==
    \E out \in Outcomes(action_str) :
        ExploreNavAfterGoal(action, action_str, isEnd, out,
                            IF isEnd THEN PyBool(ObjectNav_is_goal_in_range(agent)) ELSE success,
                            IF isEnd THEN PyBool(ObjectNav_is_goal_in_range(agent))
                            ELSE PyBool(out.ok))

\* _step(action) under Task.step, for every outcome of the simulator
ExploreNavStep(action) ==
    /\ UNCHANGED sceneVars
    /\ kind = "ExploreNav"
    /\ call.err = "none"
    /\ ~is_done
    /\ ExploreNavSend(action, ExploreNavActions[action], ExploreNavActions[action] = END)

----------------------------------------------------------------------------
(* RoboThorEnvironment as a task sampler drives it, before any task exists *)

\* self.grids has no entry for the current scene
NoGrid == [nogrid |-> TRUE]

\* self.grids without the other scenes
NoGrids == [s \in {} |-> NoGrid]

\* what a call asked of the simulator
NoEnvLog ==
    [reset_scene |-> "none",     \* the scene handed to controller.reset
     reset_teleport |-> FALSE,   \* reset teleported to known_good_location
     sim_ok |-> TRUE,            \* the simulator's answer to what reset issued
     path_queries |-> 0,         \* shortest-path queries
     restored |-> 0,             \* teleports back to the pose read before a query
     attempts |-> 0,             \* non-forced teleports to a random state
     accepted |-> 0,             \* how many of them the simulator accepted
     forced |-> 0]               \* forced teleports

\* self.grids as one dict: scene -> grid
AllGrids == IF grids = NoGrid THEN scene_grids ELSE (scene_name :> grids) @@ scene_grids

\* ({},) + initialize_grid_dimensions(currently_reachable_points) in scene s
GridOf(s) == [cells |-> NoCells] @@ initialize_grid_dimensions(SceneReachable(s))

\* an initialize_grid() that builds the grid of scene s afresh on every call
GridsAfter_Rebuilds(all, s) == (s :> GridOf(s)) @@ all

\* initialize_grid() in scene s: nothing when the scene has a grid
GridsAfter(all, s) == IF s \in DOMAIN all THEN all ELSE (s :> GridOf(s)) @@ all

\* a reset that reloads the scene whenever one is named
ResetsScene_Always(scene_arg) == scene_arg # "None"

\* reset(scene_name): a new scene is asked for
ResetsScene(scene_arg) == scene_arg # "None" /\ scene_arg # scene_name

\* reset(): what the simulator may answer to the action reset issues
ResetAnswers(scene_arg) ==
    IF ResetsScene(scene_arg) THEN SimReset(agent, scene_name, scene_arg)
    ELSE Teleport(agent, scene_name, known_good_location)

\* reset() without its assertions
reset_Unasserted(scene_arg, sim) ==
    [err |-> "none",
     agent |-> sim.agent,
     ok |-> sim.ok,
     scene |-> sim.scene,
     known_good_location |-> IF ResetsScene(scene_arg) THEN agent_state(sim.agent)
                             ELSE known_good_location,
     all_grids |-> GridsAfter(AllGrids, sim.scene),
     log |-> [NoEnvLog EXCEPT !.reset_scene = IF ResetsScene(scene_arg) THEN scene_arg ELSE "none",
                              !.reset_teleport = ~ResetsScene(scene_arg),
                              !.sim_ok = sim.ok]]

\* reset(scene_name) for the simulator's answer sim
reset(scene_arg, sim) ==
    [err |-> IF sim.ok THEN "none" ELSE "AssertionError",
     agent |-> sim.agent,
     ok |-> sim.ok,
     scene |-> sim.scene,
     known_good_location |-> IF sim.ok /\ ResetsScene(scene_arg) THEN agent_state(sim.agent)
                             ELSE known_good_location,
     all_grids |-> IF sim.ok THEN GridsAfter(AllGrids, sim.scene) ELSE AllGrids,
     log |-> [NoEnvLog EXCEPT !.reset_scene = IF ResetsScene(scene_arg) THEN scene_arg ELSE "none",
                              !.reset_teleport = ~ResetsScene(scene_arg),
                              !.sim_ok = sim.ok]]

\* the environment after reset(): r is what reset() left
AfterReset(r) ==
    /\ scene_name' = r.scene
    /\ known_good_location' = r.known_good_location
    /\ grids' = (IF r.scene \in DOMAIN r.all_grids THEN r.all_grids[r.scene] ELSE NoGrid)
    /\ scene_grids' = [s \in (DOMAIN r.all_grids) \ {r.scene} |-> r.all_grids[s]]

\* no task exists: the task's fields stay as they are
NoTask == UNCHANGED <<cfgVars, taskVars, judged, shaped, metricsReads, simLog>>

\* a sampler may make another call
SamplerCan ==
    /\ kind = "none"
    /\ pc = "idle"
    /\ call.err = "none"
    /\ env_calls < MaxCalls

ResetCall(scene_arg, r) ==
    /\ AfterReset(r)
    /\ agent' = r.agent
    /\ lastActionSuccess' = r.ok
    /\ call' = [op |-> "reset", err |-> r.err, ret |-> [scene_arg |-> scene_arg]]
    /\ envLog' = r.log
    /\ env_calls' = env_calls + 1
    /\ UNCHANGED <<pc, rand_k, rand_state, answers>>
    /\ NoTask

\* reset(scene_name), scene_name a scene or "None"
EnvReset(scene_arg) ==
    /\ SamplerCan
    /\ \E sim \in ResetAnswers(scene_arg) : ResetCall(scene_arg, reset(scene_arg, sim))

\* step(action_dict)
EnvStep(action_str) ==
    /\ SamplerCan
    /\ \E out \in SimStep(agent, action_str) :
          /\ agent' = out.agent
          /\ lastActionSuccess' = out.ok
    /\ call' = [op |-> "step", err |-> "none", ret |-> [action_str |-> action_str]]
    /\ envLog' = NoEnvLog
    /\ env_calls' = env_calls + 1
    /\ UNCHANGED <<grids, scene_name, known_good_location, scene_grids, pc, rand_k,
                   rand_state, answers>>
    /\ NoTask

\* path_corners without the teleport back
path_corners_unrestored(pose, q) ==
    [path |-> PathOrEmpty(q), agent |-> q.agent, ok |-> q.ok, restored |-> 0]

\* path_corners for the simulator's answer q: [] on ValueError, and in every
\* case the teleport to the pose read before the query
path_corners_finally(pose, q) ==
    [path |-> PathOrEmpty(q), agent |-> pose, ok |-> TRUE, restored |-> 1]

PathCornersCall(r) ==
    /\ agent' = r.agent
    /\ lastActionSuccess' = r.ok
    /\ call' = [op |-> "path_corners", err |-> "none",
                ret |-> [path |-> r.path, pose |-> agent_state(agent)]]
    /\ envLog' = [NoEnvLog EXCEPT !.path_queries = 1, !.restored = r.restored]
    /\ env_calls' = env_calls + 1
    /\ UNCHANGED <<grids, scene_name, known_good_location, scene_grids, pc, rand_k,
                   rand_state, answers>>
    /\ NoTask

\* path_corners(object_type)
EnvPathCorners ==
    /\ SamplerCan
    /\ \E q \in ShortestPathQuery(agent) :
          PathCornersCall(path_corners_finally(agent_state(agent), q))

\* dist_to_object on an environment whose scene has a grid
DistCall(target, cell, rd) ==
    /\ grids' = rd.grid
    /\ lastActionSuccess' = (IF rd.queries > 0 THEN TRUE ELSE lastActionSuccess)
    /\ call' = [op |-> "dist_to_object", err |-> "none",
                ret |-> [target |-> target, cell |-> cell, dist |-> rd.dist]]
    /\ envLog' = [NoEnvLog EXCEPT !.path_queries = rd.queries, !.restored = rd.queries]
    /\ answers' = answers \cup {<<scene_name, target, cell, rd.dist, agent_state(agent)>>}

\* self.grids[self.scene_name] of a scene without a grid
DistKeyError ==
    /\ call' = [op |-> "dist_to_object", err |-> "KeyError", ret |-> NoRet]
    /\ envLog' = NoEnvLog
    /\ UNCHANGED <<grids, lastActionSuccess, answers>>

\* dist_to_object(object_type)
EnvDistToObject(target) ==
    /\ SamplerCan
    /\ IF grids = NoGrid THEN DistKeyError
       ELSE DistCall(target, GridCell(quantized_agent_state(grids, agent, 1, 1)),
                     dist_to_object(grids, agent, target))
    /\ env_calls' = env_calls + 1
    /\ UNCHANGED <<agent, scene_name, known_good_location, scene_grids, pc, rand_k,
                   rand_state>>
    /\ NoTask

\* object_reachable(object_type) on a scene with a grid
ReachableCall(target, cell, rd) ==
    /\ grids' = rd.grid
    /\ lastActionSuccess' = (IF rd.queries > 0 THEN TRUE ELSE lastActionSuccess)
    /\ call' = [op |-> "object_reachable", err |-> "none",
                ret |-> [target |-> target, cell |-> cell, dist |-> rd.dist,
                         reachable |-> object_reachable(rd)]]
    /\ envLog' = [NoEnvLog EXCEPT !.path_queries = rd.queries, !.restored = rd.queries]
    /\ answers' = answers \cup {<<scene_name, target, cell, rd.dist, agent_state(agent)>>}

\* self.grids[self.scene_name] of a scene without a grid
ReachableKeyError ==
    /\ call' = [op |-> "object_reachable", err |-> "KeyError", ret |-> NoRet]
    /\ envLog' = NoEnvLog
    /\ UNCHANGED <<grids, lastActionSuccess, answers>>

\* object_reachable(object_type)
EnvObjectReachable(target) ==
    /\ SamplerCan
    /\ IF grids = NoGrid THEN ReachableKeyError
       ELSE ReachableCall(target, GridCell(quantized_agent_state(grids, agent, 1, 1)),
                          access_grid(grids, agent, target))
    /\ env_calls' = env_calls + 1
    /\ UNCHANGED <<agent, scene_name, known_good_location, scene_grids, pc, rand_k,
                   rand_state>>
    /\ NoTask

\* state: Optional[Dict] = None
NoState == [nostate |-> TRUE]

\* the rotations random_reachable_state draws from
RandomRotations == {r \in 0..MaxRotation : r % rotateStepDegrees = 0}

\* random_reachable_state() in scene s
random_reachable_state(s) ==
    { [x |-> p, z |-> 0, rot |-> r, horizon |-> 0] :
          p \in SceneReachable(s), r \in RandomRotations }

\* a loop that retries for as long as the simulator rejects
Retry_Unbounded(kk, ok) == kk = 0 \/ ~ok

\* the loop test of randomize_agent_location
Retry(kk, ok) == kk = 0 \/ (~ok /\ kk < MaxAttempts)

\* randomize_agent_location(): the call starts
RandomizeStart ==
    /\ SamplerCan
    /\ pc' = "randomize"
    /\ rand_k' = 0
    /\ rand_state' = NoState
    /\ call' = [op |-> "randomize_agent_location", err |-> "none", ret |-> NoRet]
    /\ envLog' = NoEnvLog
    /\ env_calls' = env_calls + 1
    /\ UNCHANGED <<envVars, scene_name, known_good_location, scene_grids, answers>>
    /\ NoTask

\* one pass of the loop: the reset() in it raised
AttemptAborted(r) ==
    /\ AfterReset(r)
    /\ agent' = r.agent
    /\ lastActionSuccess' = r.ok
    /\ call' = [op |-> "randomize_agent_location", err |-> r.err, ret |-> NoRet]
    /\ envLog' = [envLog EXCEPT !.sim_ok = FALSE, !.reset_teleport = TRUE]
    /\ pc' = "idle"
    /\ UNCHANGED <<rand_k, rand_state>>

\* one pass of the loop: the teleport to the random state st was answered by t
AttemptTeleport(r, st, t) ==
    /\ AfterReset(r)
    /\ agent' = t.agent
    /\ lastActionSuccess' = t.ok
    /\ rand_k' = rand_k + 1
    /\ rand_state' = st
    /\ envLog' = [envLog EXCEPT !.reset_teleport = TRUE,
                                !.attempts = @ + 1,
                                !.accepted = @ + (IF t.ok THEN 1 ELSE 0)]
    /\ UNCHANGED <<call, pc>>

AttemptAfterReset(r) ==
    IF r.err # "none" THEN AttemptAborted(r)
    ELSE \E st \in random_reachable_state(r.scene) :
            \E t \in Teleport(r.agent, r.scene, st) : AttemptTeleport(r, st, t)

\* randomize_agent_location(): one pass of the while loop
RandomizeAttempt ==
    /\ kind = "none"
    /\ pc = "randomize"
    /\ call.err = "none"
    /\ Retry(rand_k, lastActionSuccess)
    /\ \E sim \in ResetAnswers("None") : AttemptAfterReset(reset("None", sim))
    /\ UNCHANGED <<env_calls, answers>>
    /\ NoTask

\* a forced teleport whose failure goes unnoticed
ForcedResult_Unchecked(t) ==
    [op |-> "randomize_agent_location", err |-> "none",
     ret |-> [pose |-> agent_state(t.agent)]]

\* the forced teleport and the assertion after it
ForcedResult(t) ==
    IF t.ok
    THEN [op |-> "randomize_agent_location", err |-> "none",
          ret |-> [pose |-> agent_state(t.agent)]]
    ELSE [op |-> "randomize_agent_location", err |-> "AssertionError", ret |-> NoRet]

\* after the loop, the last teleport was rejected: force the action
FinishForced(t) ==
    /\ agent' = t.agent
    /\ lastActionSuccess' = t.ok
    /\ envLog' = [envLog EXCEPT !.forced = @ + 1]
    /\ call' = ForcedResult(t)

\* after the loop, the last teleport was accepted: return agent_state()
FinishAccepted ==
    /\ call' = [op |-> "randomize_agent_location", err |-> "none",
                ret |-> [pose |-> agent_state(agent)]]
    /\ UNCHANGED <<agent, lastActionSuccess, envLog>>

\* randomize_agent_location(): what follows the while loop
RandomizeFinish ==
    /\ kind = "none"
    /\ pc = "randomize"
    /\ call.err = "none"
    /\ ~Retry(rand_k, lastActionSuccess)
    /\ IF lastActionSuccess THEN FinishAccepted
       ELSE \E t \in Teleport(agent, scene_name, rand_state) : FinishForced(t)
    /\ pc' = "idle"
    /\ UNCHANGED <<grids, scene_name, known_good_location, scene_grids, rand_k, rand_state,
                   env_calls, answers>>
    /\ NoTask

----------------------------------------------------------------------------
(* Episodes *)

RewardConfigs ==
    { [step_penalty |-> -1, goal_success_reward |-> 1000, failed_stop_reward |-> 0,
       shaping_weight |-> 1, exploration_shaping_weight |-> 10,
       unsuccessful_action_penalty |-> -2],
      [step_penalty |-> -1, goal_success_reward |-> 1000, failed_stop_reward |-> -50,
       shaping_weight |-> 0, exploration_shaping_weight |-> 10,
       unsuccessful_action_penalty |-> -2],
      [step_penalty |-> -1, goal_success_reward |-> 1000, failed_stop_reward |-> -50,
       shaping_weight |-> 2, exploration_shaping_weight |-> 10,
       unsuccessful_action_penalty |-> -2] }

StartPose(x) == [x |-> x, z |-> 0, rot |-> 0, horizon |-> 0]

\* the distance __init__ stores: from the cache, else from the grid (first)
InitialDistance(k, dc, a0, first) ==
    IF dc /\ k = "PointNav" THEN get_distance(a0)
    ELSE IF dc THEN get_distance_to_object(a0)
    ELSE first.dist

\* __init__ of the task class k on a freshly reset environment
InitWith(k, dc, rc, m, a0, first) ==
    /\ (k # "ObjectNav" => ~m)
    /\ (k = "ExploreNav" => ~dc)
    /\ agent = a0
    /\ lastActionSuccess = TRUE
    /\ grids = IF dc THEN initialize_grid ELSE first.grid
    /\ kind = k
    /\ distance_cache = dc
    /\ reward_configs = rc
    /\ mirror = m
    /\ took_end_action = FALSE
    /\ success = "False"
    /\ last_action_success = "None"
    /\ last_geodesic_distance = (IF k = "ExploreNav" THEN 0 ELSE InitialDistance(k, dc, a0, first))
    /\ optimal_distance = (IF k = "ExploreNav" THEN 0 ELSE InitialDistance(k, dc, a0, first))
    /\ episode_optimal_corners = (IF k = "ExploreNav" THEN <<>> ELSE path_corners(a0))
    /\ rewards = <<>>
    /\ path = <<>>
    /\ num_moves_made = 0
    /\ num_steps_taken = 0
    /\ followed_path = (IF k = "ObjectNav" THEN <<a0>> ELSE <<>>)
    /\ taken_actions = <<>>
    /\ cur_dist = (IF k = "ExploreNav" THEN first.dist ELSE 0)
    /\ visited = (IF k = "ExploreNav"
                  THEN {agent_to_grid(first.grid, a0, 4, 3)} ELSE {})
    /\ call = [op |-> "init", err |-> "none", ret |-> NoRet]
    /\ judged = 0
    /\ shaped = 0
    /\ metricsReads = 0
    /\ simLog = [sent |-> "none", shaping_queries |-> 0]

\* the environment of an episode: one scene, the sampler is done with it
SamplerIdle ==
    /\ scene_name = SceneName
    /\ known_good_location = SceneStart(SceneName)
    /\ scene_grids = NoGrids
    /\ pc = "idle"
    /\ rand_k = 0
    /\ rand_state = NoState
    /\ env_calls = 0
    /\ envLog = NoEnvLog
    /\ answers = {}

\* the state after Environment.reset() and the task's __init__
Init ==
    /\ SamplerIdle
    /\ \E k \in {"PointNav", "ObjectNav", "ExploreNav"}, dc \in BOOLEAN, rc \in RewardConfigs,
          m \in BOOLEAN, x0 \in Points :
          InitWith(k, dc, rc, m, StartPose(x0),
                   dist_to_object(initialize_grid, StartPose(x0), TargetType))

Next ==
    \/ \E action \in 1..Len(PointNavActions) : PointNavStep(action)
    \/ PointNavMetrics
    \/ \E action \in 1..Len(ObjectNavActions) : ObjectNavStep(action)
    \/ ObjectNavMetrics
    \/ \E mode \in {"rgb", "depth"} : Render(mode)
    \/ \E action \in 1..Len(ExploreNavActions) : ExploreNavStep(action)

Spec == Init /\ [][Next]_vars

\* no task has been built on the environment
NoTaskYet ==
    /\ kind = "none"
    /\ distance_cache = FALSE
    /\ reward_configs = [step_penalty |-> 0]
    /\ mirror = FALSE
    /\ optimal_distance = 0
    /\ episode_optimal_corners = <<>>
    /\ took_end_action = FALSE
    /\ success = "False"
    /\ last_action_success = "None"
    /\ last_geodesic_distance = 0
    /\ rewards = <<>>
    /\ path = <<>>
    /\ num_moves_made = 0
    /\ num_steps_taken = 0
    /\ followed_path = <<>>
    /\ taken_actions = <<>>
    /\ cur_dist = 0
    /\ visited = {}
    /\ judged = 0
    /\ shaped = 0
    /\ metricsReads = 0
    /\ simLog = [sent |-> "none", shaping_queries |-> 0]

\* the state after RoboThorEnvironment.__init__
EnvInit ==
    /\ NoTaskYet
    /\ agent = SceneStart(SceneName)
    /\ lastActionSuccess = TRUE
    /\ grids = NoGrid
    /\ scene_name = SceneName
    /\ known_good_location = agent_state(SceneStart(SceneName))
    /\ scene_grids = NoGrids
    /\ pc = "idle"
    /\ rand_k = 0
    /\ rand_state = NoState
    /\ env_calls = 0
    /\ envLog = NoEnvLog
    /\ answers = {}
    /\ call = [op |-> "init", err |-> "none", ret |-> NoRet]

EnvNext ==
    \/ \E scene_arg \in Scenes \cup {"None"} : EnvReset(scene_arg)
    \/ \E action_str \in {MOVE_AHEAD, ROTATE_RIGHT} : EnvStep(action_str)
    \/ EnvPathCorners
    \/ \E target \in {TargetType, OtherType} : EnvDistToObject(target)
    \/ \E target \in {TargetType, OtherType} : EnvObjectReachable(target)
    \/ RandomizeStart
    \/ RandomizeAttempt
    \/ RandomizeFinish

\* a sampler driving a bare environment
EnvSpec == EnvInit /\ [][EnvNext]_vars

\* the same, with the interpreter running the started call on
EnvFairSpec == EnvSpec /\ WF_vars(RandomizeAttempt) /\ WF_vars(RandomizeFinish)

----------------------------------------------------------------------------
(* Properties *)

StepReturned == call.op = "step" /\ call.err = "none"

MetricsReturned == call.op = "metrics" /\ call.err = "none"

\* the reading shaping() took at the pose the agent is at
Reading ==
    IF kind = "PointNav" THEN PointReading(agent) ELSE ObjectReading(grids, agent).dist

\* C1, as stated: for PointNavTask and ObjectNavTask, with or without a distance
\* cache, metrics() on a task that is not done returns {} and does not raise.
C1_MetricsEmptyAnyConfiguration ==
    (call.op = "metrics" /\ ~is_done) => (call.err = "none" /\ call.ret.empty = TRUE)

\* C1, amended: metrics() on a task that is not done returns {} for PointNavTask
\* (cache or not) and for ObjectNavTask with a distance cache; ObjectNavTask
\* without a distance cache raises NotImplementedError instead.
C1_MetricsEmptyUntilDone ==
    (call.op = "metrics" /\ ~is_done) =>
        IF kind = "ObjectNav" /\ ~distance_cache
        THEN call.err = "NotImplementedError"
        ELSE call.err = "none" /\ call.ret.empty = TRUE

C1_Witness ==
    /\ kind = "ObjectNav" /\ distance_cache
    /\ call.op = "metrics" /\ ~is_done /\ num_steps_taken > 0
    /\ call.ret.empty = TRUE

\* C2: when the first metrics() call on the done task returns a populated
\* mapping, its total_reward is the sum of the rewards judge() returned for
\* every step of the episode.
C2_RewardConservation ==
    (MetricsReturned /\ metricsReads = 1 /\ call.ret.empty = FALSE)
        => call.ret.total_reward = judged

C2_Witness ==
    /\ MetricsReturned /\ metricsReads = 1 /\ call.ret.empty = FALSE
    /\ num_steps_taken >= 2
    /\ call.ret.total_reward # 0

\* C3: PointNavTask.judge() gives step_penalty + shaping() on a step that is
\* not END, plus goal_success_reward on END with _success True, plus
\* failed_stop_reward on END with _success False; with step_penalty -0.01 and
\* shaping_weight 1.0 a MOVE_AHEAD that shortens the distance by 0.25 gives 0.24.
C3_JudgeReward ==
    (kind = "PointNav" /\ StepReturned) =>
        /\ (call.ret.action_str # END =>
                call.ret.reward = reward_configs.step_penalty + call.ret.shaping)
        /\ (call.ret.action_str = END /\ success = "True" =>
                call.ret.reward = reward_configs.step_penalty + call.ret.shaping
                                  + reward_configs.goal_success_reward)
        /\ (call.ret.action_str = END /\ success = "False" =>
                call.ret.reward = reward_configs.step_penalty + call.ret.shaping
                                  + reward_configs.failed_stop_reward)
        /\ (/\ call.ret.action_str = MOVE_AHEAD
            /\ reward_configs.step_penalty = -1
            /\ reward_configs.shaping_weight = 1
            /\ call.ret.last_before > ValidAbove
            /\ last_geodesic_distance > ValidAbove
            /\ call.ret.last_before - last_geodesic_distance = 25
            => call.ret.reward = 24)

C3_Witness ==
    /\ kind = "PointNav" /\ StepReturned
    /\ call.ret.action_str = MOVE_AHEAD
    /\ call.ret.last_before - last_geodesic_distance = 25
    /\ call.ret.reward = 24

\* C4, as stated: at END, PointNavTask._is_goal_in_range() returns True for a
\* reachable distance of at most 0.2, False for a distance above 0.2 and None
\* for an unreachable or unknown distance, whatever the distance is.
C4_GoalInRangeTotal ==
    (kind = "PointNav" /\ took_end_action) =>
        /\ call.err # "TypeError"
        /\ (ValidAbove < Reading /\ Reading <= GoalRange => success = "True")
        /\ (Reading > GoalRange => success = "False")
        /\ (Reading = PyNone \/ Reading <= ValidAbove => success = "None")

\* C5: when PointNavTask takes END and the goal-range check gives None, the
\* reward of that step holds neither goal_success_reward nor failed_stop_reward,
\* and every later metrics() call of the episode returns {}.
C5_AmbiguousSuccess ==
    (kind = "PointNav" /\ took_end_action /\ success = "None") =>
        /\ (StepReturned =>
                call.ret.reward = reward_configs.step_penalty + call.ret.shaping)
        /\ (call.op = "metrics" => call.err = "none" /\ call.ret.empty = TRUE)

C5_Witness ==
    /\ kind = "PointNav" /\ took_end_action /\ success = "None"
    /\ StepReturned
    /\ reward_configs.failed_stop_reward # 0

\* C6, as stated: when ObjectNavTask takes END, _success is True iff a visible
\* object has the target type; then the reward of the END step includes
\* goal_success_reward and metrics()["success"] is True.
C6_ObjectNavTermination ==
    (kind = "ObjectNav" /\ took_end_action) =>
        /\ (success = "True" <=>
                \E o \in all_objects(agent) : o.visible /\ o.objectType = TargetType)
        /\ (success = "True" /\ StepReturned =>
                call.ret.reward = reward_configs.step_penalty + call.ret.shaping
                                  + reward_configs.goal_success_reward)
        /\ (success = "True" /\ call.op = "metrics" =>
                /\ call.err = "none"
                /\ call.ret.empty = FALSE
                /\ call.ret.success = "True")

\* C6, amended: the success test and the reward as stated; metrics() reports
\* success True whenever it returns, which it does only with a distance cache
\* and a spl() that can be computed: without a cache it raises
\* NotImplementedError, and spl() raises when the optimal distance is None or
\* when it is 0 and no move was made.
C6_ObjectNavTerminationWithCache ==
    (kind = "ObjectNav" /\ took_end_action) =>
        /\ (success = "True" <=>
                \E o \in all_objects(agent) : o.visible /\ o.objectType = TargetType)
        /\ (success = "True" /\ StepReturned =>
                call.ret.reward = reward_configs.step_penalty + call.ret.shaping
                                  + reward_configs.goal_success_reward)
        /\ (success = "True" /\ call.op = "metrics" =>
                /\ (~distance_cache => call.err = "NotImplementedError")
                /\ (distance_cache /\ optimal_distance = PyNone => call.err = "TypeError")
                /\ (distance_cache /\ optimal_distance # PyNone
                      /\ Max(num_moves_made * gridSize, optimal_distance) = 0
                      => call.err = "ZeroDivisionError")
                /\ (distance_cache /\ optimal_distance # PyNone
                      /\ Max(num_moves_made * gridSize, optimal_distance) # 0
                      => call.err = "none" /\ call.ret.empty = FALSE
                         /\ call.ret.success = "True"))

C6_Witness ==
    /\ kind = "ObjectNav" /\ took_end_action /\ success = "True"
    /\ MetricsReturned
    /\ call.ret.empty = FALSE
    /\ call.ret.success = "True"

\* the rotation opposite to a rotation
Opposite(name) ==
    IF name = ROTATE_LEFT THEN ROTATE_RIGHT
    ELSE IF name = ROTATE_RIGHT THEN ROTATE_LEFT
    ELSE name

\* C7: a mirrored ObjectNavTask asked for ROTATE_LEFT sends ROTATE_RIGHT to the
\* simulator and the reverse, which is what an unmirrored task sends for the
\* opposite rotation; every other action is sent as asked, mirrored or not
\* (END is sent to no simulator at all).
C7_MirroredActions ==
    (kind = "ObjectNav" /\ StepReturned) =>
        simLog.sent =
            IF ObjectNavActions[call.ret.action] = END THEN "none"
            ELSE IF mirror THEN Opposite(ObjectNavActions[call.ret.action])
            ELSE ObjectNavActions[call.ret.action]

C7_Witness ==
    /\ kind = "ObjectNav" /\ mirror /\ StepReturned
    /\ ObjectNavActions[call.ret.action] = ROTATE_LEFT
    /\ simLog.sent = ROTATE_RIGHT

\* C8, as stated: under mirror every 2- or 3-dimensional image observation of
\* get_observations() and every frame of render(), rgb or depth, is the
\* horizontal flip of the unmirrored one; without mirror they are unflipped.
C8_MirroredImages ==
    /\ (kind = "ObjectNav" /\ StepReturned =>
            \A o \in {n \in SensorNames : sensor_observations(agent)[n].ndim \in {2, 3}} :
                call.ret.observation[o].cols =
                    IF mirror THEN Flip(sensor_observations(agent)[o].cols)
                    ELSE sensor_observations(agent)[o].cols)
    /\ (kind = "ObjectNav" /\ call.op = "render" =>
            /\ call.err = "none"
            /\ call.ret.frame.cols =
                 IF mirror THEN Flip(PointNav_render(call.ret.mode, agent).frame.cols)
                 ELSE PointNav_render(call.ret.mode, agent).frame.cols)

\* C9: with shaping_weight 0, shaping() returns 0 in every task class, asks
\* neither the environment nor the distance cache for a distance, and leaves
\* the stored last distance as it was.
C9_ZeroWeightShaping ==
    (StepReturned /\ reward_configs.shaping_weight = 0) =>
        /\ call.ret.shaping = 0
        /\ simLog.shaping_queries = 0
        /\ call.ret.last_before =
             (IF kind = "ExploreNav" THEN cur_dist ELSE last_geodesic_distance)

C9_Witness ==
    /\ StepReturned /\ reward_configs.shaping_weight = 0
    /\ kind = "ExploreNav"
    /\ call.ret.action_str = MOVE_AHEAD
    /\ last_action_success = "True"

\* C10: with a non-zero shaping_weight the distance term of shaping() is
\* shaping_weight * (last distance - current distance) when both are valid
\* (> -0.5), and 0 when either is the unreachable value -1.0.
C10_DistanceTerm ==
    (kind \in {"PointNav", "ObjectNav"} /\ StepReturned
       /\ reward_configs.shaping_weight # 0) =>
        /\ (call.ret.last_before > ValidAbove /\ Reading > ValidAbove =>
                call.ret.shaping = reward_configs.shaping_weight
                                   * (call.ret.last_before - Reading))
        /\ (call.ret.last_before = Unreachable \/ Reading = Unreachable =>
                call.ret.shaping = 0)

C10_Witness ==
    /\ kind = "ObjectNav" /\ StepReturned
    /\ reward_configs.shaping_weight = 2
    /\ call.ret.last_before > ValidAbove /\ Reading > ValidAbove
    /\ call.ret.shaping = 2 * (call.ret.last_before - Reading)
    /\ call.ret.shaping # 0

\* C11: in PointNavTask.shaping() an unreachable reading (-1.0) leaves the
\* stored last_geodesic_distance as it was, so a last_geodesic_distance that
\* was valid (> -0.5) at construction is valid after every sequence of steps.
C11_LastDistanceStaysValid ==
    kind = "PointNav" =>
        /\ (StepReturned /\ Reading = Unreachable =>
                last_geodesic_distance = call.ret.last_before)
        /\ (optimal_distance > ValidAbove => last_geodesic_distance > ValidAbove)

C11_Witness ==
    /\ kind = "PointNav" /\ StepReturned
    /\ reward_configs.shaping_weight # 0
    /\ Reading = Unreachable
    /\ optimal_distance > ValidAbove
    /\ last_geodesic_distance = call.ret.last_before

\* C12: spl() is 0 unless _success is True; for a successful episode it is
\* optimal_distance / max(num_moves_made * gridSize, optimal_distance) in
\* distance-cache mode, and lies in [0, 1] whenever
\* num_moves_made * gridSize >= optimal_distance > 0.
C12_SplValue ==
    (MetricsReturned /\ call.ret.empty = FALSE) =>
        /\ (call.ret.success # "True" => call.ret.spl.num = 0 /\ call.ret.spl.den > 0)
        /\ (call.ret.success = "True" =>
                /\ call.ret.spl.num = optimal_distance
                /\ call.ret.spl.den =
                     (IF num_moves_made * gridSize >= optimal_distance
                      THEN num_moves_made * gridSize ELSE optimal_distance))
        /\ (/\ call.ret.success = "True"
            /\ num_moves_made * gridSize >= optimal_distance
            /\ optimal_distance > 0
            => /\ call.ret.spl.den > 0
               /\ 0 <= call.ret.spl.num
               /\ call.ret.spl.num <= call.ret.spl.den)

C12_Witness ==
    /\ MetricsReturned /\ call.ret.empty = FALSE
    /\ call.ret.success = "True"
    /\ num_moves_made * gridSize >= optimal_distance
    /\ optimal_distance > 0
    /\ call.ret.spl.num < call.ret.spl.den

\* the cells a grid can have, and the targets asked about
GridCells == (0..2) \X {0}

Targets == {TargetType, OtherType}

\* self.grids[s][0][t][c] in the dict all, -2 where nothing is stored
GridValue(all, s, t, c) ==
    IF s \notin DOMAIN all THEN Unknown
    ELSE IF t \notin DOMAIN all[s].cells THEN Unknown
    ELSE IF c \notin DOMAIN all[s].cells[t] THEN Unknown
    ELSE all[s].cells[t][c]

\* a randomize_agent_location call has returned or raised
RandomizeEnded == call.op = "randomize_agent_location" /\ pc = "idle"

\* C13: once access_grid has stored a value other than -2 in a cell of a
\* scene's grid for a target, the value never changes, and a later access_grid
\* for that scene, target and cell returns it without a shortest-path query.
C13_Memoized ==
    [][/\ \A s \in Scenes, t \in Targets, c \in GridCells :
             GridValue(AllGrids, s, t, c) # Unknown =>
                 GridValue(AllGrids', s, t, c) = GridValue(AllGrids, s, t, c)
       /\ (/\ call'.op = "dist_to_object" /\ call'.err = "none"
           /\ GridValue(AllGrids, scene_name, call'.ret.target, call'.ret.cell) # Unknown
           => /\ call'.ret.dist =
                   GridValue(AllGrids, scene_name, call'.ret.target, call'.ret.cell)
              /\ envLog'.path_queries = 0)]_vars

C13_Witness ==
    /\ call.op = "dist_to_object" /\ call.err = "none"
    /\ envLog.path_queries = 0
    /\ call.ret.dist = GridValue(AllGrids, scene_name, call.ret.target, call.ret.cell)
    /\ call.ret.dist # InfToUnreachable(path_corners_to_dist(path_corners(agent)))

\* C14: in one scene and for one target, two poses that quantize to the same
\* grid cell get the same distance from access_grid / dist_to_object, whatever
\* their coordinates and rotation in the cell and the order of the queries.
C14_SameCellSameDistance ==
    \A a \in answers, b \in answers :
        (a[1] = b[1] /\ a[2] = b[2] /\ a[3] = b[3]) => a[4] = b[4]

C14_Witness ==
    \E a \in answers, b \in answers :
        /\ a[1] = b[1] /\ a[2] = b[2] /\ a[3] = b[3]
        /\ a[5].x # b[5].x
        /\ a[4] = b[4]

\* C15: every cell of every per-target grid holds -2 (unknown), -1 (known
\* unreachable) or a length >= 0, and access_grid / dist_to_object never
\* returns -2.
C15_CacheValueDomain ==
    /\ \A s \in Scenes, t \in Targets, c \in GridCells :
          \/ GridValue(AllGrids, s, t, c) = Unknown
          \/ GridValue(AllGrids, s, t, c) = Unreachable
          \/ (0 <= GridValue(AllGrids, s, t, c) /\ GridValue(AllGrids, s, t, c) < PyInf)
    /\ (call.op = "dist_to_object" /\ call.err = "none" => call.ret.dist # Unknown)

C15_Witness ==
    /\ call.op = "dist_to_object" /\ call.err = "none"
    /\ call.ret.dist = Unreachable
    /\ \E s \in Scenes, t \in Targets, c \in GridCells : GridValue(AllGrids, s, t, c) >= 0
    /\ \E t \in Targets, c \in GridCells :
          c \in DOMAIN grids.cells[t] /\ grids.cells[t][c] = Unknown

C17_ResetSemantics ==
    [][(call'.op = "reset" /\ call'.err = "none") =>
          IF call'.ret.scene_arg # "None" /\ call'.ret.scene_arg # scene_name
          THEN /\ envLog'.reset_scene = call'.ret.scene_arg
               /\ ~envLog'.reset_teleport
               /\ scene_name' = call'.ret.scene_arg
               /\ known_good_location' = agent_state(agent')
          ELSE /\ envLog'.reset_scene = "none"
               /\ envLog'.reset_teleport
               /\ scene_name' = scene_name
               /\ agent_state(agent') = known_good_location
               /\ known_good_location' = known_good_location]_vars

C17_Witness ==
    /\ call.op = "reset" /\ call.err = "none"
    /\ call.ret.scene_arg = OtherScene
    /\ envLog.reset_scene = OtherScene
    /\ scene_name = OtherScene
    /\ known_good_location = agent_state(SceneStart(OtherScene))

\* C18: reset() returns only if the simulator accepted the reset or teleport
\* it issued, and then the current scene has a grid; if the simulator rejects,
\* reset() raises AssertionError and initializes no grid.
C18_ResetAsserts ==
    [][call'.op = "reset" =>
          /\ (call'.err = "none" => envLog'.sim_ok /\ grids' # NoGrid)
          /\ (~envLog'.sim_ok => call'.err = "AssertionError" /\ AllGrids' = AllGrids)]_vars

C18_Witness ==
    /\ call.op = "reset" /\ call.err = "AssertionError"
    /\ ~envLog.sim_ok
    /\ grids = NoGrid

\* C19, as stated: randomize_agent_location always makes at least 1 and at
\* most 10 non-forced teleport attempts.
C19_AttemptsOneToTen ==
    RandomizeEnded => (1 <= envLog.attempts /\ envLog.attempts <= MaxAttempts)

\* C19, amended: randomize_agent_location always ends, by returning or by an
\* AssertionError; it makes at most 10 non-forced teleport attempts, none only
\* when the reset() of its first pass raises, and no attempt follows one the
\* simulator accepted.
C19_BoundedRetry ==
    /\ []((pc = "randomize" \/ RandomizeEnded) =>
            /\ envLog.attempts = rand_k
            /\ envLog.attempts <= MaxAttempts
            /\ envLog.accepted <= 1
            /\ (envLog.accepted = 1 /\ call.err = "none" =>
                    lastActionSuccess /\ agent_state(agent) = rand_state)
            /\ (RandomizeEnded /\ envLog.attempts = 0 =>
                    call.err = "AssertionError" /\ ~envLog.sim_ok))
    /\ ((pc = "randomize") ~> (pc = "idle"))

C19_Witness ==
    /\ RandomizeEnded
    /\ envLog.attempts = MaxAttempts
    /\ envLog.accepted = 0
    /\ call.err = "none"

\* C20: randomize_agent_location forces the teleport iff all 10 non-forced
\* attempts were rejected; it returns a pose only when the last teleport
\* succeeded, and raises AssertionError when the forced teleport fails too.
C20_ForcedTeleport ==
    RandomizeEnded =>
        /\ (envLog.forced = 1 <=> (envLog.attempts = MaxAttempts /\ envLog.accepted = 0))
        /\ envLog.forced <= 1
        /\ (call.err = "none" =>
                lastActionSuccess /\ call.ret.pose = agent_state(agent))
        /\ (envLog.forced = 1 /\ ~lastActionSuccess => call.err = "AssertionError")

C20_Witness ==
    /\ RandomizeEnded
    /\ envLog.forced = 1
    /\ ~lastActionSuccess
    /\ call.err = "AssertionError"

\* C21: ObjectNavTask.metrics() raises NotImplementedError whenever no distance
\* cache is configured, done or not, instead of returning a mapping, and the
\* raise leaves the reward list as it was.
C21_NoCacheMetricsRaises ==
    [][(kind = "ObjectNav" /\ ~distance_cache /\ call'.op = "metrics") =>
          /\ call'.err = "NotImplementedError"
          /\ call'.ret = NoRet
          /\ rewards' = rewards]_vars

C21_Witness ==
    /\ kind = "ObjectNav" /\ ~distance_cache
    /\ call.op = "metrics" /\ call.err = "NotImplementedError"
    /\ is_done
    /\ rewards # <<>>
    /\ SumSeq(rewards) = judged

\* C22: PointNavTask.metrics() called on a done task never raises: it returns
\* the full mapping or {}, with and without a distance cache.
C22_DoneMetricsNeverRaise ==
    (kind = "PointNav" /\ call.op = "metrics" /\ is_done) => call.err = "none"

\* the step just made was an END step: nothing was forwarded to the simulator
EndStepped == call.op = "step" /\ simLog.sent = "none"

\* what one step of a PointNavTask or ObjectNavTask episode does to the flag
TerminalFlagStep ==
    kind \in {"PointNav", "ObjectNav"} =>
        /\ (reached_terminal_state => reached_terminal_state')
        /\ (EndStepped' => reached_terminal_state')
        /\ (~EndStepped' => reached_terminal_state' = reached_terminal_state)
        /\ (StepReturned' => (EndStepped' <=> call'.ret.action_str = END))

\* C23: for PointNavTask and ObjectNavTask, reached_terminal_state() is False
\* at construction, becomes True exactly when END is stepped, is not made True
\* by any other action or by the step budget running out, and stays True.
C23_TerminalOnlyByEnd ==
    /\ []((kind \in {"PointNav", "ObjectNav"} /\ call.op = "init") => ~reached_terminal_state)
    /\ [][TerminalFlagStep]_vars

C23_Witness ==
    /\ kind \in {"PointNav", "ObjectNav"}
    /\ num_steps_taken = MaxSteps
    /\ is_done
    /\ ~reached_terminal_state
    /\ call.op = "metrics"

\* the action names of the task class of the episode
ActionNames ==
    IF kind = "PointNav" THEN PointNavActions
    ELSE IF kind = "ObjectNav" THEN ObjectNavActions
    ELSE ExploreNavActions

\* C24: every step result of every task variant carries info with a boolean
\* last_action_success and with action equal to the index the caller passed
\* (for a mirrored ObjectNavTask, the index before the left/right swap).
C24_StepInfo ==
    StepReturned =>
        /\ call.ret.info_keys = {"last_action_success", "action"}
        /\ call.ret.last_action_success \in {"True", "False"}
        /\ call.ret.action \in 1..Len(ActionNames)
        /\ call.ret.action_str =
              (IF mirror THEN Opposite(ActionNames[call.ret.action])
               ELSE ActionNames[call.ret.action])

\* a metrics() call on a done task that hands back the full mapping
DoubleReadStep ==
    (/\ kind \in {"PointNav", "ObjectNav"}
     /\ is_done
     /\ call'.op = "metrics" /\ call'.err = "none" /\ call'.ret.empty = FALSE)
    => /\ rewards' = <<>>
       /\ call'.ret.total_reward = (IF metricsReads = 0 THEN judged ELSE 0)
       /\ (call.op = "metrics" =>
              /\ call.ret.empty = FALSE
              /\ call'.ret = [call.ret EXCEPT !.total_reward = 0])

\* C25: on a done task the first metrics() call reports the summed reward of the
\* episode and empties the reward list, so a second metrics() call with no step
\* in between reports total_reward 0 and every other field as the first did.
C25_DoubleRead == [][DoubleReadStep]_vars

C25_Witness ==
    /\ kind \in {"PointNav", "ObjectNav"}
    /\ MetricsReturned /\ call.ret.empty = FALSE
    /\ metricsReads = MaxReads
    /\ call.ret.total_reward = 0
    /\ judged # 0
    /\ call.ret.ep_length = num_steps_taken
    /\ rewards = <<>>

\* C26, as stated: path never contains two equal consecutive positions.
C26_NoEqualConsecutive ==
    \A i \in 1..(Len(path) - 1) : path[i] # path[i + 1]

\* what a step of PointNavTask or ObjectNavTask does to path and num_moves_made
PathStep ==
    (kind \in {"PointNav", "ObjectNav"} /\ call'.op = "step") =>
        /\ path' = (IF EndStepped' THEN path ELSE Append(path, Position(agent')))
        /\ (StepReturned' =>
               num_moves_made' - num_moves_made =
                   (IF Len(path') > 1 /\ path'[Len(path')] # path'[Len(path') - 1]
                    THEN 1 ELSE 0))

\* C26, amended: a non-END step appends the position the agent then has to
\* path whether or not it differs from the last recorded one, so path can hold
\* equal consecutive positions; what depends on the difference is
\* num_moves_made, which a step increments iff path then has more than one
\* entry and its last two entries differ.
C26_PathAppendsEveryStep == [][PathStep]_vars

C26_Witness ==
    /\ kind \in {"PointNav", "ObjectNav"}
    /\ StepReturned
    /\ \E i \in 1..(Len(path) - 1) : path[i] = path[i + 1]
    /\ Len(path) = MaxSteps
    /\ num_moves_made = 1

\* what an END step, and what any other step, of PointNavTask or ObjectNavTask
\* asks of the simulator and does to the recorded paths
EndFrameStep ==
    (kind \in {"PointNav", "ObjectNav"} /\ call'.op = "step") =>
        /\ (StepReturned' =>
               ((reached_terminal_state' /\ ~reached_terminal_state)
                    <=> call'.ret.action_str = END))
        /\ IF reached_terminal_state' /\ ~reached_terminal_state
           THEN /\ simLog'.sent = "none"
                /\ agent' = agent
                /\ path' = path
                /\ followed_path' = followed_path
           ELSE /\ simLog'.sent \notin {"none", END}
                /\ (StepReturned' => simLog'.sent = call'.ret.action_str)
                /\ Len(path') = Len(path) + 1
                /\ (kind = "ObjectNav" => Len(followed_path') = Len(followed_path) + 1)

\* C27: stepping END sends no action to the simulator and leaves path (and, for
\* ObjectNavTask, task_info["followed_path"]) unchanged; only non-END actions
\* are forwarded to Environment.step.
C27_EndSendsNothing == [][EndFrameStep]_vars

C27_Witness ==
    /\ kind = "ObjectNav"
    /\ StepReturned /\ call.ret.action_str = END
    /\ simLog.sent = "none"
    /\ num_steps_taken = MaxSteps
    /\ Len(path) = MaxSteps - 1
    /\ Len(followed_path) = MaxSteps

\* the bookkeeping of an ObjectNavTask between two steps
BookkeepingInv ==
    (kind = "ObjectNav" /\ call.err = "none") =>
        /\ Len(taken_actions) = num_steps_taken
        /\ Len(followed_path) =
              1 + Cardinality({i \in 1..Len(taken_actions) : taken_actions[i] # END})
        /\ (call.op = "init" =>
               taken_actions = <<>> /\ followed_path = <<agent_state(agent)>>)

\* what a returned step of an ObjectNavTask adds to the bookkeeping
BookkeepingStep ==
    (kind = "ObjectNav" /\ call'.op = "step" /\ call'.err = "none") =>
        /\ taken_actions' =
              Append(taken_actions,
                     IF mirror THEN Opposite(ObjectNavActions[call'.ret.action])
                     ELSE ObjectNavActions[call'.ret.action])
        /\ taken_actions'[Len(taken_actions')] =
              (IF simLog'.sent = "none" THEN END ELSE simLog'.sent)
        /\ followed_path' =
              (IF taken_actions'[Len(taken_actions')] = END THEN followed_path
               ELSE Append(followed_path, agent_state(agent')))

\* C28: after n steps of an ObjectNavTask, task_info["taken_actions"] has n
\* entries, each the action name after mirroring (the one sent to the simulator,
\* or END), in step order; task_info["followed_path"] has 1 + (number of
\* non-END steps) full poses, the first being the pose at construction.
C28_Bookkeeping == []BookkeepingInv /\ [][BookkeepingStep]_vars

C28_Witness ==
    /\ kind = "ObjectNav" /\ mirror
    /\ StepReturned
    /\ Len(taken_actions) = MaxSteps
    /\ taken_actions[MaxSteps] = END
    /\ \E i \in 1..(MaxSteps - 1) :
          taken_actions[i] = ROTATE_RIGHT /\ followed_path[i + 1].rot # followed_path[i].rot
    /\ Len(followed_path) = MaxSteps

\* C29: no step, judge, shaping, spl or metrics call changes the task's
\* reward_configs, mirror flag, optimal_distance or episode_optimal_corners:
\* all four keep the values set at construction for the whole episode.
C29_ConfigFrozen ==
    [][/\ reward_configs' = reward_configs
       /\ mirror' = mirror
       /\ optimal_distance' = optimal_distance
       /\ episode_optimal_corners' = episode_optimal_corners]_vars

C29_Witness ==
    /\ kind \in {"PointNav", "ObjectNav"}
    /\ MetricsReturned /\ call.ret.empty = FALSE
    /\ num_moves_made > 0
    /\ last_geodesic_distance # optimal_distance
    /\ episode_optimal_corners # path_corners(agent)

\* a distance call on a scene with a grid, from a pose the simulator finds no
\* path for, while the agent's cell holds no value yet
NoPathStep ==
    (call'.op \in {"dist_to_object", "object_reachable"} /\ grids # NoGrid) =>
        /\ call'.err = "none"
        /\ ((GridValue(AllGrids, scene_name, call'.ret.target, call'.ret.cell) = Unknown
             /\ ~ShortestPath(agent).ok)
            => /\ envLog'.path_queries = 1
               /\ call'.ret.dist = Unreachable
               /\ GridValue(AllGrids', scene_name, call'.ret.target, call'.ret.cell)
                     = Unreachable
               /\ (call'.op = "object_reachable" => call'.ret.reachable = FALSE))

\* C30: when the simulator's shortest-path query raises no-path for the agent's
\* cell, access_grid does not raise: it stores -1 in the cell and returns -1,
\* dist_to_object returns -1 and object_reachable returns False.
C30_SoftNoPath == [][NoPathStep]_vars

C30_Witness ==
    /\ call.op = "object_reachable" /\ call.err = "none"
    /\ envLog.path_queries = 1
    /\ ~ShortestPath(agent).ok
    /\ call.ret.dist = Unreachable
    /\ call.ret.reachable = FALSE
    /\ GridValue(AllGrids, scene_name, call.ret.target, call.ret.cell) = Unreachable

\* one step of the environment, seen from self.grids
GridsPersistStep ==
    /\ DOMAIN AllGrids \subseteq DOMAIN AllGrids'
    /\ \A s \in DOMAIN AllGrids :
          /\ AllGrids'[s].xmin = AllGrids[s].xmin /\ AllGrids'[s].xmax = AllGrids[s].xmax
          /\ AllGrids'[s].zmin = AllGrids[s].zmin /\ AllGrids'[s].zmax = AllGrids[s].zmax
          /\ \A t \in Targets, c \in GridCells :
                GridValue(AllGrids, s, t, c) # Unknown =>
                    GridValue(AllGrids', s, t, c) = GridValue(AllGrids, s, t, c)
          /\ (s # scene_name => AllGrids'[s] = AllGrids[s])
    /\ (/\ call'.op \in {"dist_to_object", "object_reachable"} /\ call'.err = "none"
        /\ GridValue(AllGrids, scene_name, call'.ret.target, call'.ret.cell) # Unknown
        => /\ envLog'.path_queries = 0
           /\ call'.ret.dist =
                GridValue(AllGrids, scene_name, call'.ret.target, call'.ret.cell))

\* C31: the scenes having a grid only grow in number; a scene that has a grid
\* keeps its bounds and every filled cell through every call, initialize_grid
\* on it included, so that a distance cached before the environment switched
\* to another scene and back is returned without a new path query; and
\* filling a cell in the current scene changes nothing in another scene's grid.
C31_GridsPersist == [][GridsPersistStep]_vars

C31_Witness ==
    /\ call.op = "reset" /\ call.err = "none"
    /\ envLog.reset_scene = SceneName
    /\ scene_name = SceneName
    /\ OtherScene \in DOMAIN AllGrids
    /\ \E t \in Targets, c \in GridCells : GridValue(AllGrids, SceneName, t, c) >= 0

\* the indices q address a cell of the grid g and of each of its per-target arrays
InsideGrid(g, q) ==
    /\ q[1] \in 0..(g.xmax - g.xmin)
    /\ q[2] \in 0..(g.zmax - g.zmin)
    /\ \A t \in DOMAIN g.cells : GridCell(q) \in DOMAIN g.cells[t]

\* C32: with xz_subsampling = 1, quantized_agent_state returns indices with
\* 0 <= grid_x <= xmax - xmin and 0 <= grid_z <= zmax - zmin for every pose,
\* poses outside the bounding box of the reachable points included, so that
\* access_grid never indexes outside a per-target array.
C32_IndicesInsideGrid ==
    grids # NoGrid =>
        \A x \in Points \cup {agent.x} :
            InsideGrid(grids, quantized_agent_state(grids, [agent EXCEPT !.x = x], 1, 1))

C32_Witness ==
    /\ call.op = "dist_to_object" /\ call.err = "none"
    /\ PyRound(agent.x, gridSize) > grids.xmax
    /\ call.ret.cell = <<grids.xmax - grids.xmin, 0>>
    /\ InsideGrid(grids, quantized_agent_state(grids, agent, 1, 1))

\* PointNavTask has just returned from an END step whose goal-range check gave None
UndecidedEnd ==
    /\ kind = "PointNav" /\ StepReturned
    /\ call.ret.action_str = END
    /\ success = "None"

\* the reward judge() would give the same END step had _success been False
FailedStopReward == PointNav_judge(agent, call.ret.last_before, TRUE, "False").reward

\* C33, as stated: when PointNavTask takes END and the goal-range check gives
\* None, the reward of the step equals the reward a failed stop would receive
\* in the same state, and metrics() returns {}.
C33_UndecidedEndPaidAsFailure ==
    /\ (UndecidedEnd => call.ret.reward = FailedStopReward)
    /\ (kind = "PointNav" /\ success = "None" /\ call.op = "metrics" =>
            call.err = "none" /\ call.ret.empty = TRUE)

\* C33, amended: the reward of such a step is the failed stop's reward less
\* failed_stop_reward, that is, it carries no terminal term at all, and it
\* equals the failed stop's reward exactly when failed_stop_reward is 0;
\* metrics() returns {}.
C33_UndecidedEndPaidNoTerminalTerm ==
    /\ (UndecidedEnd =>
            /\ call.ret.reward = FailedStopReward - reward_configs.failed_stop_reward
            /\ (call.ret.reward = FailedStopReward <=>
                    reward_configs.failed_stop_reward = 0))
    /\ (kind = "PointNav" /\ success = "None" /\ call.op = "metrics" =>
            call.err = "none" /\ call.ret.empty = TRUE)

C33_Witness ==
    /\ UndecidedEnd
    /\ reward_configs.failed_stop_reward = 0
    /\ call.ret.reward = FailedStopReward
    /\ num_steps_taken >= 2

\* the reward list between two calls, until metrics() has read the done task
OneRewardPerStep ==
    (kind \in {"PointNav", "ObjectNav"} /\ metricsReads = 0) =>
        /\ Len(rewards) = num_steps_taken
        /\ SumSeq(rewards) = judged

\* the reward judge() gives from the state the action left, END being taken or not
JudgedAfter(a, g, last, took_end, succ) ==
    IF kind = "PointNav" THEN PointNav_judge(a, last, took_end, succ).reward
    ELSE ObjectNav_judge(g, a, last, took_end, succ).reward

\* what a returned step adds to the reward list
OneJudgeStep ==
    (kind \in {"PointNav", "ObjectNav"} /\ call'.op = "step" /\ call'.err = "none") =>
        /\ rewards' = Append(rewards, call'.ret.reward)
        /\ num_steps_taken' = num_steps_taken + 1
        /\ call'.ret.reward =
              JudgedAfter(agent', grids, last_geodesic_distance, took_end_action', success')
        /\ call'.ret.observation =
              (IF kind = "PointNav" THEN sensor_observations(agent')
               ELSE MirrorObservations(mirror, sensor_observations(agent')))

\* C34: each step of PointNavTask and of ObjectNavTask calls judge() once, on
\* the state the action left and with the observation taken from that state,
\* and appends one reward; until metrics() is called on a done task the reward
\* list is as long as the number of steps taken.
C34_OneRewardPerStep == []OneRewardPerStep /\ [][OneJudgeStep]_vars

C34_Witness ==
    /\ kind = "ObjectNav" /\ StepReturned
    /\ metricsReads = 0
    /\ Len(rewards) = MaxSteps
    /\ rewards[MaxSteps] = call.ret.reward
    /\ rewards[1] # rewards[2]

\* a returned END step of PointNavTask or ObjectNavTask leaves the move counter alone
EndMovesStep ==
    (/\ kind \in {"PointNav", "ObjectNav"}
     /\ call'.op = "step" /\ call'.err = "none"
     /\ call'.ret.action_str = END)
    => num_moves_made' = num_moves_made

\* C35, as stated: stepping END never changes num_moves_made, whatever the
\* positions recorded in path.
C35_EndKeepsMoveCount == [][EndMovesStep]_vars

\* a returned step other than END that changed the agent's position counts as one move
MoveCountedStep ==
    (/\ kind \in {"PointNav", "ObjectNav"}
     /\ call'.op = "step" /\ call'.err = "none"
     /\ call'.ret.action_str # END
     /\ Position(agent') # Position(agent))
    => num_moves_made' = num_moves_made + 1

\* C36, as stated: num_moves_made counts every step other than END that changed
\* the agent's position, the first step of the episode included: a first action
\* that moves the agent away from its start position leaves num_moves_made at 1.
C36_EveryMoveCounted == [][MoveCountedStep]_vars

\* the shaping paid so far is the weight times the distance gained since construction
Telescoped ==
    shaped = reward_configs.shaping_weight * (optimal_distance - last_geodesic_distance)

\* a returned step of a shaped PointNavTask stores the reading it took when the
\* reading is valid and keeps the stored distance when it is -1.0
LastValidReadingStep ==
    (/\ kind = "PointNav" /\ reward_configs.shaping_weight # 0
     /\ optimal_distance > ValidAbove
     /\ call'.op = "step" /\ call'.err = "none")
    => /\ (PointReading(agent') = Unreachable \/ PointReading(agent') >= 0)
       /\ last_geodesic_distance' =
             (IF PointReading(agent') = Unreachable THEN last_geodesic_distance
              ELSE PointReading(agent'))

\* C37: in a PointNavTask whose distance at construction is valid and whose
\* later readings are valid or -1.0, the shaping() values of the steps taken
\* so far add up to shaping_weight * (distance at construction - most recent
\* valid reading), after any sequence of steps.
C37_PointNavShapingTelescopes ==
    /\ []((kind = "PointNav" /\ optimal_distance > ValidAbove /\ call.err = "none")
             => Telescoped)
    /\ [][LastValidReadingStep]_vars

C37_Witness ==
    /\ kind = "PointNav" /\ distance_cache /\ StepReturned
    /\ optimal_distance > ValidAbove
    /\ \E i \in 1..(Len(path) - 1) : CacheLookup(path[i].x) = Unreachable
    /\ PointReading(agent) > ValidAbove
    /\ shaped # 0
    /\ shaped = reward_configs.shaping_weight * (optimal_distance - PointReading(agent))

\* C38, as stated: in an ObjectNavTask whose distance at construction and
\* distance at the last step are both valid, the shaping() values of the
\* episode add up to shaping_weight * (distance at construction - distance at
\* the last step), unreachable readings (-1) in between notwithstanding.
C38_ObjectNavShapingTelescopes ==
    (/\ kind = "ObjectNav" /\ call.err = "none"
     /\ optimal_distance > ValidAbove
     /\ last_geodesic_distance > ValidAbove)
    => shaped = reward_configs.shaping_weight * (optimal_distance - last_geodesic_distance)

\* the headings the agent can take: multiples of rotateStepDegrees in [0, 360)
Headings == { rotateStepDegrees * i : i \in 0..(360 \div rotateStepDegrees - 1) }

\* the rotation bucket quantized_agent_state gives the agent's pose turned to heading r
BucketAt(r) == quantized_agent_state(grids, [agent EXCEPT !.rot = r], 1, 1)[3]

\* C39, as stated: with rot_subsampling = 1 and rotateStepDegrees = 30, two
\* distinct headings that are multiples of 30 degrees in [0, 360) get distinct
\* rotation buckets from quantized_agent_state, and every bucket lies in 0..11.
C39_BucketsInjective ==
    agent.rot \in Headings =>
        /\ BucketAt(agent.rot) \in 0..11
        /\ \A r \in Headings : r # agent.rot => BucketAt(r) # BucketAt(agent.rot)

\* the exploration bonus of a step that ends in the (cell, sector) c
ExplorationBonus(c) ==
    IF c \in visited
    THEN 0
    ELSE reward_configs.shaping_weight * reward_configs.exploration_shaping_weight

\* a returned step of the exploration task that ends in the (cell, sector) c
VisitedStep(c) ==
    /\ visited \subseteq visited'
    /\ visited' = visited \cup {c}
    /\ call'.ret.shaping =
          reward_configs.shaping_weight * CloserTerm(cur_dist, cur_dist') + ExplorationBonus(c)

ExploreBonusStep ==
    (/\ kind = "ExploreNav" /\ reward_configs.shaping_weight # 0
     /\ call'.op = "step" /\ call'.err = "none")
    => VisitedStep(agent_to_grid(grids', agent', 4, 3))

\* C40: in the exploration ObjectNavTask with non-zero shaping_weight the
\* visited set holds the start (cell, sector) from construction on and only
\* grows; a step earns shaping_weight * exploration_shaping_weight on top of
\* the distance term when it ends in a (cell, sector) not yet in the set and
\* nothing otherwise, so each (cell, sector) is paid at most once and the
\* start one never.
C40_ExplorationBonusOnce ==
    /\ []((kind = "ExploreNav" /\ call.op = "init") =>
             visited = {agent_to_grid(grids, agent, 4, 3)})
    /\ [][ExploreBonusStep]_vars

C40_Witness ==
    /\ kind = "ExploreNav" /\ reward_configs.shaping_weight # 0
    /\ StepReturned
    /\ num_steps_taken = MaxSteps
    /\ Cardinality(visited) = 2
    /\ agent_to_grid(grids, agent, 4, 3) = agent_to_grid(grids, StartPose(agent.x), 4, 3)
    /\ call.ret.shaping =
          reward_configs.shaping_weight * CloserTerm(call.ret.last_before, cur_dist)

====
